---- MODULE Spec2Model ----
(***************************************************************************)
(* Price-prediction dispatch of the Smart Retail service: startup loading  *)
(* of the model tiers, product-type classification, feature-record         *)
(* construction, pipeline dispatch, price clamping and the HTTP mapping of *)
(* the two price endpoints (server/app.py and smart_retail).               *)
(***************************************************************************)
EXTENDS Integers, Sequences, FiniteSets, TLC

(***************************************************************************)
(* Text.  A Python str is modelled as a sequence of one-character strings  *)
(* so that `in` (substring test) and lower() are computed, not assumed.    *)
(***************************************************************************)
UpperCase ==
    <<"A","B","C","D","E","F","G","H","I","J","K","L","M",
      "N","O","P","Q","R","S","T","U","V","W","X","Y","Z">>

LowerCase ==
    <<"a","b","c","d","e","f","g","h","i","j","k","l","m",
      "n","o","p","q","r","s","t","u","v","w","x","y","z">>

\* str.lower() on one character
LowerChar(c) ==
    IF \E i \in 1..Len(UpperCase) : UpperCase[i] = c
    THEN LowerCase[CHOOSE i \in 1..Len(UpperCase) : UpperCase[i] = c]
    ELSE c

\* str.lower()
Lower(s) == [i \in 1..Len(s) |-> LowerChar(s[i])]

\* Python `k in s` for strings: k occurs in s as a contiguous substring
Contains(k, s) ==
    \E i \in 1..(Len(s) - Len(k) + 1) : SubSeq(s, i, i + Len(k) - 1) = k

\* dict.get(key, '') of a product dict
Get(d, key) == IF key \in DOMAIN d THEN d[key] ELSE <<>>

(***************************************************************************)
(* ProductClassifier keyword lists                                         *)
(***************************************************************************)

JEWELRY_KEYWORDS ==
    << <<"r", "i", "n", "g">>,
       <<"c", "h", "a", "i", "n">>,
       <<"e", "a", "r", "r", "i", "n", "g">>,
       <<"n", "e", "c", "k", "l", "a", "c", "e">>,
       <<"b", "r", "a", "c", "e", "l", "e", "t">>,
       <<"p", "e", "n", "d", "a", "n", "t">>,
       <<"b", "a", "n", "g", "l", "e">>,
       <<"d", "i", "a", "m", "o", "n", "d">>,
       <<"g", "o", "l", "d">>,
       <<"s", "i", "l", "v", "e", "r">>,
       <<"p", "l", "a", "t", "i", "n", "u", "m">>,
       <<"k", "a", "r", "a", "t">>,
       <<"k", "t">>,
       <<"g", "e", "m">>,
       <<"s", "t", "o", "n", "e">> >>

WATCH_KEYWORDS ==
    << <<"w", "a", "t", "c", "h">>,
       <<"c", "h", "r", "o", "n", "o", "g", "r", "a", "p", "h">>,
       <<"a", "u", "t", "o", "m", "a", "t", "i", "c">>,
       <<"q", "u", "a", "r", "t", "z">>,
       <<"m", "o", "v", "e", "m", "e", "n", "t">>,
       <<"d", "i", "a", "l">>,
       <<"s", "t", "r", "a", "p">>,
       <<"t", "i", "m", "e", "p", "i", "e", "c", "e">>,
       <<"w", "r", "i", "s", "t", "w", "a", "t", "c", "h">>,
       <<"c", "a", "s", "i", "o">>,
       <<"t", "i", "t", "a", "n">>,
       <<"f", "a", "s", "t", "r", "a", "c", "k">>,
       <<"f", "o", "s", "s", "i", "l">> >>

LUXURY_KEYWORDS ==
    << <<"d", "e", "s", "i", "g", "n", "e", "r">>,
       <<"c", "o", "u", "t", "u", "r", "e">>,
       <<"p", "r", "e", "m", "i", "u", "m">>,
       <<"e", "x", "c", "l", "u", "s", "i", "v", "e">>,
       <<"l", "i", "m", "i", "t", "e", "d">>,
       <<"h", "a", "n", "d", "m", "a", "d", "e">>,
       <<"c", "a", "s", "h", "m", "e", "r", "e">>,
       <<"s", "i", "l", "k">>,
       <<"l", "e", "a", "t", "h", "e", "r">>,
       <<"w", "o", "o", "l">>,
       <<"p", "a", "s", "h", "m", "i", "n", "a">>,
       <<"g", "e", "o", "r", "g", "e", "t", "t", "e">>,
       <<"v", "e", "l", "v", "e", "t">> >>

ProductTypes == {"jewelry", "watches", "luxury_apparel", "apparel"}

\* any(keyword in category or keyword in product_name for keyword in kws)
AnyInEither(kws, category, product_name) ==
    \E j \in 1..Len(kws) : Contains(kws[j], category) \/ Contains(kws[j], product_name)

\* the luxury test asking for a keyword that is the whole product name
AnyInName_WholeName(kws, product_name) ==
    \E j \in 1..Len(kws) : kws[j] = product_name

\* any(keyword in product_name for keyword in kws)
AnyInName(kws, product_name) ==
    \E j \in 1..Len(kws) : Contains(kws[j], product_name)

\* classify_product_type reading product_data['category'] without a default
classify_product_type_NoDefault(product_data) ==
    IF "category" \notin DOMAIN product_data \/ "product_name" \notin DOMAIN product_data
    THEN "KeyError"
    ELSE LET category     == Lower(product_data.category)
             product_name == Lower(product_data.product_name)
         IN  IF AnyInEither(JEWELRY_KEYWORDS, category, product_name) THEN "jewelry"
             ELSE IF AnyInEither(WATCH_KEYWORDS, category, product_name) THEN "watches"
             ELSE IF AnyInName(LUXURY_KEYWORDS, product_name) THEN "luxury_apparel"
             ELSE "apparel"

\* ProductClassifier.classify_product_type (smart_retail)
classify_product_type(product_data) ==
    LET category     == Lower(Get(product_data, "category"))
        product_name == Lower(Get(product_data, "product_name"))
    IN  IF AnyInEither(JEWELRY_KEYWORDS, category, product_name) THEN "jewelry"
        ELSE IF AnyInEither(WATCH_KEYWORDS, category, product_name) THEN "watches"
        ELSE IF AnyInName(LUXURY_KEYWORDS, product_name) THEN "luxury_apparel"
        ELSE "apparel"
\* classify_product_type testing the luxury keywords before the jewelry ones
srv_classify_product_type_LuxuryFirst(row) ==
    LET category     == Lower(Get(row, "category"))
        product_name == Lower(Get(row, "product_name"))
    IN  IF AnyInName(LUXURY_KEYWORDS, product_name) THEN "luxury_apparel"
        ELSE IF AnyInEither(JEWELRY_KEYWORDS, category, product_name) THEN "jewelry"
        ELSE IF AnyInEither(WATCH_KEYWORDS, category, product_name) THEN "watches"
        ELSE "apparel"

\* classify_product_type of server/app.py (its own copy of the keyword lists,
\* which are equal to the ProductClassifier lists)
srv_classify_product_type(row) ==
    LET category     == Lower(Get(row, "category"))
        product_name == Lower(Get(row, "product_name"))
    IN  IF AnyInEither(JEWELRY_KEYWORDS, category, product_name) THEN "jewelry"
        ELSE IF AnyInEither(WATCH_KEYWORDS, category, product_name) THEN "watches"
        ELSE IF AnyInName(LUXURY_KEYWORDS, product_name) THEN "luxury_apparel"
        ELSE "apparel"

(***************************************************************************)
(* Product descriptors used as request bodies.  The first four are the     *)
(* descriptors of test_complete_system.py; the others exercise the         *)
(* classifier's substring, case and priority rules and the bounds of the   *)
(* numeric fields.  discount_percent is in hundredths of a percent.        *)
(***************************************************************************)

GoldRing ==
    [product_name |-> <<"M", "e", "n", " ", "1", "8", "k", "t", " ", "G", "o", "l", "d", " ", "R", "i", "n", "g", " ", "-", " ", "3", ".", "4", "4", "g", "m">>,
     brand |-> <<"t", "a", "n", "i", "s", "h", "q">>,
     gender |-> <<"m", "e", "n">>,
     category |-> <<"r", "i", "n", "g">>,
     rating_count |-> 150,
     discount_percent |-> 1000]

AutoWatch ==
    [product_name |-> <<"M", "e", "n", " ", "A", "u", "t", "o", "m", "a", "t", "i", "c", " ", "M", "o", "t", "i", "o", "n", " ", "W", "a", "t", "c", "h">>,
     brand |-> <<"t", "i", "t", "a", "n">>,
     gender |-> <<"m", "e", "n">>,
     category |-> <<"w", "a", "t", "c", "h">>,
     rating_count |-> 200,
     discount_percent |-> 1500]

SilkSaree ==
    [product_name |-> <<"D", "e", "s", "i", "g", "n", "e", "r", " ", "S", "i", "l", "k", " ", "S", "a", "r", "e", "e", " ", "w", "i", "t", "h", " ", "E", "m", "b", "r", "o", "i", "d", "e", "r", "y">>,
     brand |-> <<"s", "a", "b", "y", "a", "s", "a", "c", "h", "i">>,
     gender |-> <<"w", "o", "m", "e", "n">>,
     category |-> <<"s", "a", "r", "e", "e">>,
     rating_count |-> 50,
     discount_percent |-> 500]

CottonTee ==
    [product_name |-> <<"W", "o", "m", "e", "n", " ", "C", "o", "t", "t", "o", "n", " ", "C", "a", "s", "u", "a", "l", " ", "T", "-", "S", "h", "i", "r", "t">>,
     brand |-> <<"r", "o", "a", "d", "s", "t", "e", "r">>,
     gender |-> <<"w", "o", "m", "e", "n">>,
     category |-> <<"t", "s", "h", "i", "r", "t">>,
     rating_count |-> 500,
     discount_percent |-> 3000]

SilkNecklace ==
    [product_name |-> <<"P", "u", "r", "e", " ", "S", "i", "l", "k", " ", "S", "c", "a", "r", "f">>,
     brand |-> <<"f", "a", "b", "i", "n", "d", "i", "a">>,
     gender |-> <<"w", "o", "m", "e", "n">>,
     category |-> <<"N", "e", "c", "k", "l", "a", "c", "e">>,
     rating_count |-> 0,
     discount_percent |-> 0]

SpringDress ==
    [product_name |-> <<"S", "p", "r", "i", "n", "g", " ", "D", "r", "e", "s", "s">>,
     brand |-> <<"z", "a", "r", "a">>,
     gender |-> <<"w", "o", "m", "e", "n">>,
     category |-> <<"d", "r", "e", "s", "s">>,
     rating_count |-> 10,
     discount_percent |-> 10000]

LeatherStrap ==
    [product_name |-> <<"L", "E", "A", "T", "H", "E", "R", " ", "S", "T", "R", "A", "P">>,
     brand |-> <<"f", "o", "s", "s", "i", "l">>,
     gender |-> <<"m", "e", "n">>,
     category |-> <<"a", "c", "c", "e", "s", "s", "o", "r", "i", "e", "s">>,
     rating_count |-> 0,
     discount_percent |-> 0]

BandWristwatch ==
    [product_name |-> <<"S", "p", "o", "r", "t", "s", " ", "B", "a", "n", "d">>,
     brand |-> <<"c", "a", "s", "i", "o">>,
     gender |-> <<"u", "n", "i", "s", "e", "x">>,
     category |-> <<"W", "r", "i", "s", "t", "w", "a", "t", "c", "h">>,
     rating_count |-> 0,
     discount_percent |-> 0]

SilkCategory ==
    [product_name |-> <<"P", "l", "a", "i", "n", " ", "T", "o", "p">>,
     brand |-> <<"h", "&", "m">>,
     gender |-> <<"w", "o", "m", "e", "n">>,
     category |-> <<"S", "i", "l", "k">>,
     rating_count |-> 0,
     discount_percent |-> 0]

EmptyText ==
    [product_name |-> <<>>,
     brand |-> <<>>,
     gender |-> <<"m", "e", "n">>,
     category |-> <<>>,
     rating_count |-> 0,
     discount_percent |-> 0]

NegativeRating ==
    [product_name |-> <<"M", "e", "n", " ", "S", "o", "l", "i", "d", " ", "C", "a", "s", "u", "a", "l", " ", "S", "h", "i", "r", "t">>,
     brand |-> <<"r", "o", "a", "d", "s", "t", "e", "r">>,
     gender |-> <<"m", "e", "n">>,
     category |-> <<"s", "h", "i", "r", "t">>,
     rating_count |-> 0 - 5,
     discount_percent |-> 4000]

DiscountOver ==
    [product_name |-> <<"W", "o", "m", "e", "n", " ", "P", "r", "i", "n", "t", "e", "d", " ", "T", "o", "p">>,
     brand |-> <<"z", "a", "r", "a">>,
     gender |-> <<"w", "o", "m", "e", "n">>,
     category |-> <<"t", "o", "p">>,
     rating_count |-> 20,
     discount_percent |-> 10001]

DiscountBelow ==
    [product_name |-> <<"B", "o", "y", "s", " ", "S", "t", "r", "i", "p", "e", "d", " ", "J", "a", "c", "k", "e", "t">>,
     brand |-> <<"z", "a", "r", "a">>,
     gender |-> <<"b", "o", "y", "s">>,
     category |-> <<"j", "a", "c", "k", "e", "t">>,
     rating_count |-> 20,
     discount_percent |-> 0 - 1]

Descriptors ==
    {GoldRing,
     AutoWatch,
     SilkSaree,
     CottonTee,
     SilkNecklace,
     SpringDress,
     LeatherStrap,
     BandWristwatch,
     SilkCategory,
     EmptyText,
     NegativeRating,
     DiscountOver,
     DiscountBelow}

\* dicts that lack a key, to exercise the '' default of dict.get
NoCategory == [product_name |-> <<"S","i","l","k"," ","T","i","e">>]

NoKeys == [gender |-> <<"m","e","n">>]

(***************************************************************************)
(* Feature names                                                           *)
(***************************************************************************)
\* f'{prefix}{name}' for every name of a keyword list
Prefixed(prefix, names) == {prefix \o n : n \in names}

\* keys of PriceRequest.dict(): the record built from the request alone
RequestFields ==
    {"product_name", "brand", "gender", "category", "fabric", "pattern",
     "color", "rating_count", "discount_percent"}
\* _extract_enhanced_features without the word_count entry
ExtractEnhancedFeatureNames_NoWordCount ==
    {"has_size", "name_length", "has_discount", "rating_count", "discount_percent",
     "brand_avg_price", "karat", "brand_prestige", "price_range"}
    \cup Prefixed("has_", {"cotton", "polyester", "silk", "wool", "denim", "leather",
                           "cashmere", "pashmina", "georgette", "velvet", "linen",
                           "chiffon", "organza", "net", "lace"})
    \cup Prefixed("has_", {"casual", "formal", "sport", "party", "wedding", "ethnic",
                           "western", "traditional", "vintage", "retro", "modern",
                           "classic", "trendy", "elegant", "chic"})
    \cup Prefixed("jewelry_", {"gold", "silver", "platinum", "diamond", "gem",
                               "stone", "pearl", "crystal"})
    \cup Prefixed("watch_", {"automatic", "quartz", "chronograph", "digital",
                             "analog", "waterproof", "water resistant"})
    \cup Prefixed("luxury_", {"designer", "couture", "premium", "exclusive", "limited",
                              "handmade", "embroidered", "sequined", "beaded",
                              "crystal", "swarovski"})

\* keys of the dict returned by ModelManager._extract_enhanced_features
ExtractEnhancedFeatureNames ==
    {"has_size", "name_length", "word_count", "has_discount", "rating_count",
     "discount_percent", "brand_avg_price"}
    \cup Prefixed("has_", {"cotton", "polyester", "silk", "wool", "denim", "leather",
                           "cashmere", "pashmina", "georgette", "velvet", "linen",
                           "chiffon", "organza", "net", "lace"})
    \cup Prefixed("has_", {"casual", "formal", "sport", "party", "wedding", "ethnic",
                           "western", "traditional", "vintage", "retro", "modern",
                           "classic", "trendy", "elegant", "chic"})
    \cup Prefixed("jewelry_", {"gold", "silver", "platinum", "diamond", "gem",
                               "stone", "pearl", "crystal"})
    \cup {"karat"}
    \cup Prefixed("watch_", {"automatic", "quartz", "chronograph", "digital",
                             "analog", "waterproof", "water resistant"})
    \cup {"brand_prestige"}
    \cup Prefixed("luxury_", {"designer", "couture", "premium", "exclusive", "limited",
                              "handmade", "embroidered", "sequined", "beaded",
                              "crystal", "swarovski"})
    \cup {"price_range"}

\* keys of the dict returned by extract_enhanced_features of server/app.py
srv_ExtractEnhancedFeatureNames ==
    {"has_size", "name_length", "word_count", "has_discount", "rating_count",
     "discount_percent", "brand_avg_price"}
    \cup Prefixed("has_", {"cotton", "polyester", "silk", "wool", "denim", "leather",
                           "cashmere", "pashmina", "georgette", "velvet", "linen",
                           "chiffon", "organza", "net", "lace"})
    \cup Prefixed("has_", {"casual", "formal", "sport", "party", "wedding", "ethnic",
                           "western", "traditional", "vintage", "retro", "modern",
                           "classic", "trendy", "elegant", "chic"})
    \cup Prefixed("jewelry_", {"gold", "silver", "platinum", "diamond", "gem",
                               "stone", "pearl", "crystal"})
    \cup {"karat"}
    \cup Prefixed("watch_", {"automatic", "quartz", "chronograph", "digital",
                             "analog", "waterproof", "water resistant"})
    \cup {"brand_prestige"}
    \cup Prefixed("luxury_", {"designer", "couture", "premium", "exclusive", "limited",
                              "handmade", "embroidered", "sequined", "beaded",
                              "crystal", "swarovski"})
    \cup {"price_range"}

\* combined_features = {**product_data, **enhanced_features}: the record's names
CombinedFeatureNames == RequestFields \cup ExtractEnhancedFeatureNames

srv_CombinedFeatureNames == RequestFields \cup srv_ExtractEnhancedFeatureNames

\* FastPricePredictor.get_features_for_product_type: categorical + numerical
\* feature names the specialised model of a type is trained with
get_features_for_product_type(product_type) ==
    LET base_categorical == {"brand", "gender", "fabric", "pattern", "color",
                             "brand_prestige"}
        base_numerical   == {"rating_count", "discount_percent", "name_length",
                             "word_count", "has_discount", "brand_avg_price"}
    IN  IF product_type = "jewelry" THEN
            base_categorical \cup {"price_range"} \cup base_numerical \cup {"karat"}
            \cup Prefixed("jewelry_", {"gold", "silver", "platinum", "diamond",
                                       "gem", "stone"})
        ELSE IF product_type = "watches" THEN
            base_categorical \cup {"price_range"} \cup base_numerical
            \cup Prefixed("watch_", {"automatic", "quartz", "chronograph",
                                     "digital", "analog"})
        ELSE IF product_type = "luxury_apparel" THEN
            base_categorical \cup {"price_range"} \cup base_numerical
            \cup Prefixed("luxury_", {"designer", "couture", "premium", "exclusive",
                                      "limited", "handmade"})
        ELSE
            base_categorical \cup base_numerical
            \cup Prefixed("has_", {"cotton", "polyester", "silk", "wool", "denim",
                                   "leather", "cashmere"})

\* price_prediction_improved.py: features of the pipeline saved as
\* artifacts/price_model_improved.joblib
ImprovedModelFeatures ==
    {"brand", "gender", "category", "fabric", "pattern", "color", "brand_tier"}
    \cup {"rating_count", "discount_percent", "name_length", "has_discount"}
    \cup Prefixed("has_", {"cotton", "polyester", "silk", "wool", "denim", "leather"})
    \cup Prefixed("has_", {"casual", "formal", "sport", "ethnic", "western"})
    \cup Prefixed("has_", {"cashmere", "embroidered", "handmade", "limited",
                           "exclusive", "premium", "designer", "couture",
                           "vintage", "antique"})

\* create_fallback_model.py: features of the pipeline saved as
\* artifacts/fallback_model.joblib
FallbackFileFeatures ==
    {"brand", "gender", "category", "fabric", "pattern", "color",
     "number_of_ratings", "discount_percentage"}

\* ModelManager._create_fallback_model: features of the synthetic model
SyntheticModelFeatures ==
    {"brand", "gender", "category", "fabric", "pattern", "color",
     "number_of_ratings", "discount_percentage"}

\* price_prediction.py: features of the pipeline it saves as {'pipeline': pipe},
\* every one of them a field of the request
BasicModelFeatures ==
    {"brand", "gender", "category", "fabric", "pattern", "color",
     "rating_count", "discount_percent"}

\* the feature names a pipeline held in original_model was fitted on
OriginalModelFeatures(model) ==
    IF model = "improved" THEN ImprovedModelFeatures
    ELSE IF model \in {"basic", "fallback_basic"} THEN BasicModelFeatures
    ELSE IF model = "fallback_file" THEN FallbackFileFeatures
    ELSE SyntheticModelFeatures

\* the target a pipeline was fitted on: the training scripts of the
\* multi-model types and of the single model fit on np.log1p(original_price),
\* create_fallback_model.py and _create_fallback_model on the price itself
TrainingTarget(model) ==
    IF model \in ProductTypes THEN "log1p"
    ELSE IF model \in {"improved", "basic", "fallback_basic"} THEN "log1p"
    ELSE "price"

(***************************************************************************)
(* Pipelines.  A fitted sklearn Pipeline whose ColumnTransformer selects   *)
(* its columns by name: predict raises when a fitted column is absent from *)
(* the DataFrame, otherwise it returns a log-scale value or fails inside.  *)
(* Log-scale outputs are representatives named by their position in        *)
(* Expm1Table, which gives np.expm1 of each in thousandths of a rupee.     *)
(***************************************************************************)
Inf == 2000000000

NaN == 0 - 2000000000

Expm1Table ==
    << 0 - 999,      \* expm1(-6.9)   = -0.999
       0 - 4,        \* expm1(-0.004) = -0.004
       0,            \* expm1(0)
       49994,        \* 49.994
       99996,        \* 99.996
       750000,       \* 750.0
       10000004,     \* 10000.004
       75000000,     \* 75000.0
       200000001,    \* 200000.001
       Inf,          \* overflow of expm1
       NaN >>        \* the pipeline returned nan

PredLogs == DOMAIN Expm1Table

\* np.expm1(pred_log), in thousandths
expm1(pred_log) == Expm1Table[pred_log]

ExceptionTypes == {"ValueError", "KeyError", "RuntimeError"}

\* outcomes of pipeline.predict(df)[0] for a DataFrame with the given columns
PipelinePredict(trained, columns) ==
    IF trained \subseteq columns
    THEN [kind : {"value"}, pred_log : PredLogs, exc : {"none"}]
         \cup [kind : {"raise"}, pred_log : {0}, exc : ExceptionTypes]
    ELSE [kind : {"raise"}, pred_log : {0}, exc : {"ValueError", "KeyError"}]

(***************************************************************************)
(* Prices, in thousandths of a rupee                                       *)
(***************************************************************************)
\* Settings.PRICE_CONSTRAINTS
PRICE_CONSTRAINTS ==
    [jewelry        |-> <<100000, 200000000>>,
     watches        |-> <<500000, 100000000>>,
     luxury_apparel |-> <<1000000, 50000000>>,
     apparel        |-> <<50000, 10000000>>]

\* Python a < b on floats: every comparison with nan is False
FloatLt(a, b) == a # NaN /\ b # NaN /\ a < b

\* Python min(a, b): a unless b < a
PyMin(a, b) == IF FloatLt(b, a) THEN b ELSE a

\* Python max(a, b): a unless b > a
PyMax(a, b) == IF FloatLt(a, b) THEN b ELSE a
\* the clamp without its upper bound: price = max(min_price, price)
ApplyConstraints_NoUpper(price, product_type) ==
    PyMax(PRICE_CONSTRAINTS[product_type][1], price)

\* price = max(min_price, min(price, max_price))
ApplyConstraints(price, product_type) ==
    LET min_price == PRICE_CONSTRAINTS[product_type][1]
        max_price == PRICE_CONSTRAINTS[product_type][2]
    IN  PyMax(min_price, PyMin(price, max_price))

\* round(price, 2): the possible results; a value exactly halfway between two
\* hundredths goes either way, as the binary float nearest to it decides
Round2(price) ==
    IF price \in {Inf, NaN} THEN {price}
    ELSE LET r    == price % 10
             base == price - r
         IN  IF r < 5 THEN {base}
             ELSE IF r > 5 THEN {base + 10}
             ELSE {base, base + 10}

(***************************************************************************)
(* State                                                                   *)
(***************************************************************************)
VARIABLES
    app,             \* entry point this process runs: "server" or "smart_retail"
    artifacts,       \* artifacts/*.joblib on disk: state of each file
    artifact_models, \* keys of 'models' inside a valid fast_price_models_api.joblib
    artifact_pipeline, \* which fitted pipeline a valid single-model file holds
    fit_ok,          \* whether fitting the synthetic model succeeds here
    fast_models,     \* per holder: the fast_models global / attribute
    original_model,  \* per holder: the original_model global / attribute
    pc,              \* per holder: position in its price-model loading
    resp,            \* response of the price request being served, if any
    health,          \* response of the health request being served, if any
    call,            \* last direct call of a pure function and its result
    prev,            \* the price response sent before this one, when recorded
    slots            \* per worker thread of server/app.py: the request it runs

vars == <<app, artifacts, artifact_models, artifact_pipeline, fit_ok, fast_models,
          original_model, pc, resp, health, call, prev, slots>>

\* the environment the process was started in
env == <<app, artifacts, artifact_models, artifact_pipeline, fit_ok>>

\* server/app.py keeps the models in module globals; smart_retail builds one
\* ModelManager per routes module, in the import order of routes/__init__.py
ImportOrder == <<"recommend", "price_predict", "health">>

Holders == {"server", "recommend", "price_predict", "health"}

HoldersOf(a) ==
    IF a = "server" THEN {"server"} ELSE {ImportOrder[i] : i \in 1..Len(ImportOrder)}

\* a holder starts loading when the modules imported before it are done
MayLoad(h) ==
    /\ h \in HoldersOf(app)
    /\ h # "server" =>
          \A i, j \in 1..Len(ImportOrder) :
              (ImportOrder[j] = h /\ i < j) => pc[ImportOrder[i]] = "ready"

\* serving as soon as every holder has taken its first loading step
Started_LoadBegun == \A h \in HoldersOf(app) : pc[h] # "start"

\* requests are served once the startup handler, or the import of the routes
\* modules, has returned
Started == \A h \in HoldersOf(app) : pc[h] = "ready"

None == [kind |-> "None", models |-> {}]

\* Python truthiness of the loaded fast-model object
Truthy(obj) == obj.kind = "dict"

\* os.path.exists / Path.exists of an artifact
Exists(file) == artifacts[file] # "missing"

\* joblib.load of fast_price_models_api.joblib: the loaded object, or the
\* previous value when the load raised (the except clause only prints)
LoadFastResult(old) ==
    IF artifacts.fast = "valid" THEN [kind |-> "dict", models |-> artifact_models]
    ELSE IF artifacts.fast = "falsy" THEN [kind |-> "falsy", models |-> {}]
    ELSE old

NoResp ==
    [endpoint |-> "none", req |-> <<>>, status |-> 0, detail |-> "",
     predicted_price |-> 0, product_type |-> "absent", model_type |-> "absent",
     confidence |-> "absent", classified |-> "absent", pipeline |-> "not_called",
     exc |-> "none", columns |-> {}, pred_log |-> 0, errors |-> {},
     explain |-> FALSE, explanation |-> <<>>]

NoHealth ==
    [endpoint |-> "none", fast_models_loaded |-> FALSE,
     original_model_loaded |-> FALSE, model_type_in_use |-> "absent"]

NoCall == [fn |-> "none", arg |-> <<>>, result |-> "none"]

\* the threads of the pool that runs the `def` handlers of server/app.py
WorkerThreads == {"t1", "t2"}

\* a worker thread that is running no request
IdleSlot == [pc |-> "idle", req |-> <<>>, product_type |-> "absent", resp |-> NoResp]

\* no request is being served
Idle == resp = NoResp /\ health = NoHealth

Init ==
    /\ app \in {"server", "smart_retail"}
    /\ artifacts \in [fast     : {"missing", "corrupt", "falsy", "valid"},
                      original : {"missing", "corrupt", "valid"},
                      fallback : {"missing", "corrupt", "valid"}]
    /\ artifact_models \in SUBSET ProductTypes
    /\ artifacts.fast # "valid" => artifact_models = {}
    /\ artifact_pipeline \in [original : {"improved", "basic"},
                              fallback : {"fallback_file", "fallback_basic"}]
    /\ artifacts.original # "valid" => artifact_pipeline.original = "improved"
    /\ artifacts.fallback # "valid" => artifact_pipeline.fallback = "fallback_file"
    /\ fit_ok \in BOOLEAN
    /\ fast_models = [h \in Holders |-> None]
    /\ original_model = [h \in Holders |-> "None"]
    /\ pc = [h \in Holders |-> "start"]
    /\ resp = NoResp
    /\ health = NoHealth
    /\ call = NoCall
    /\ prev = NoResp
    /\ slots = [t \in WorkerThreads |-> IdleSlot]

(***************************************************************************)
(* Startup loading: ModelManager._load_price_models, and the same steps in *)
(* load_models of server/app.py                                            *)
(***************************************************************************)
\* the second step without its `not fast_models` test
TryOriginal_Always(fm) == Exists("original")

\* guard of the second step: not fast_models and ORIGINAL_MODEL_PATH.exists()
TryOriginal(fm) == ~Truthy(fm) /\ Exists("original")

\* guard of the third step
TryFallbackFile(fm, om) == ~Truthy(fm) /\ om = "None" /\ Exists("fallback")

\* guard of the last step: not fast_models and not original_model
TryCreateFallback(fm, om) == ~Truthy(fm) /\ om = "None"

LoadFast(h) ==
    /\ MayLoad(h)
    /\ pc[h] = "start"
    /\ fast_models' =
          [fast_models EXCEPT ![h] = IF Exists("fast") THEN LoadFastResult(@) ELSE @]
    /\ pc' = [pc EXCEPT ![h] = "fast_done"]
    /\ UNCHANGED <<env, original_model, resp, health, call, prev, slots>>

LoadOriginal(h) ==
    /\ pc[h] = "fast_done"
    /\ original_model' =
          [original_model EXCEPT ![h] =
              IF TryOriginal(fast_models[h]) /\ artifacts.original = "valid"
              THEN artifact_pipeline.original ELSE @]
    /\ pc' = [pc EXCEPT ![h] = "orig_done"]
    /\ UNCHANGED <<env, fast_models, resp, health, call, prev, slots>>

LoadFallbackFile(h) ==
    /\ pc[h] = "orig_done"
    /\ original_model' =
          [original_model EXCEPT ![h] =
              IF TryFallbackFile(fast_models[h], @) /\ artifacts.fallback = "valid"
              THEN artifact_pipeline.fallback ELSE @]
    /\ pc' = [pc EXCEPT ![h] = "fb_done"]
    /\ UNCHANGED <<env, fast_models, resp, health, call, prev, slots>>

\* ModelManager._create_fallback_model: a failure of the fit is caught
CreateFallbackModel(h) ==
    /\ pc[h] = "fb_done"
    /\ original_model' =
          [original_model EXCEPT ![h] =
              IF TryCreateFallback(fast_models[h], @) /\ fit_ok
              THEN "synthetic" ELSE @]
    /\ pc' = [pc EXCEPT ![h] = "ready"]
    /\ UNCHANGED <<env, fast_models, resp, health, call, prev, slots>>

(***************************************************************************)
(* ModelManager.predict_price and the helpers it dispatches to.  Each      *)
(* returns the set of possible outcomes: a returned prediction dict or a   *)
(* raised exception.                                                       *)
(***************************************************************************)
Raised(exc, msg, classified, pipeline, columns) ==
    [kind |-> "raise", exc |-> exc, msg |-> msg, predicted_price |-> 0,
     product_type |-> "absent", model_type |-> "absent",
     classified |-> classified, pipeline |-> pipeline, columns |-> columns,
     pred_log |-> 0]

Returned(price, product_type, model_type, classified, columns, pred_log) ==
    [kind |-> "return", exc |-> "none", msg |-> "", predicted_price |-> price,
     product_type |-> product_type, model_type |-> model_type,
     classified |-> classified, pipeline |-> "returned", columns |-> columns,
     pred_log |-> pred_log]

\* _predict_with_fast_models classifying the descriptor of the call before
\* this one, as if the frame built for it had been kept on the manager
predict_with_fast_models_Stale(fm, product_data) ==
    LET product_type == classify_product_type(IF prev = NoResp THEN product_data
                                              ELSE prev.req)
        columns      == CombinedFeatureNames
    IN  IF product_type \notin fm.models
        THEN {Raised("ValueError", "No model available for product type",
                     product_type, "not_called", {})}
        ELSE UNION {
               IF o.kind = "raise"
               THEN {Raised(o.exc, "pipeline", product_type, "raised", columns)}
               ELSE {Returned(p, product_type, "fast_multi_model", product_type,
                              columns, o.pred_log) :
                       p \in Round2(ApplyConstraints(expm1(o.pred_log), product_type))}
               : o \in PipelinePredict(get_features_for_product_type(product_type),
                                       columns) }

\* ModelManager._predict_with_fast_models
predict_with_fast_models(fm, product_data) ==
    LET product_type == classify_product_type(product_data)
        columns      == CombinedFeatureNames
    IN  IF product_type \notin fm.models
        THEN {Raised("ValueError", "No model available for product type",
                     product_type, "not_called", {})}
        ELSE UNION {
               IF o.kind = "raise"
               THEN {Raised(o.exc, "pipeline", product_type, "raised", columns)}
               ELSE {Returned(p, product_type, "fast_multi_model", product_type,
                              columns, o.pred_log) :
                       p \in Round2(ApplyConstraints(expm1(o.pred_log), product_type))}
               : o \in PipelinePredict(get_features_for_product_type(product_type),
                                       columns) }

\* _predict_with_original_model clamping its price into the apparel band
predict_with_original_model_Clamped(om, product_data) ==
    LET columns == RequestFields
    IN  UNION {
          IF o.kind = "raise"
          THEN {Raised(o.exc, "pipeline", "absent", "raised", columns)}
          ELSE {Returned(p, "absent", "original_single_model", "absent",
                         columns, o.pred_log) :
                  p \in Round2(ApplyConstraints(expm1(o.pred_log), "apparel"))}
          : o \in PipelinePredict(OriginalModelFeatures(om), columns) }

\* ModelManager._predict_with_original_model
predict_with_original_model(om, product_data) ==
    LET columns == RequestFields
    IN  UNION {
          IF o.kind = "raise"
          THEN {Raised(o.exc, "pipeline", "absent", "raised", columns)}
          ELSE {Returned(p, "absent", "original_single_model", "absent",
                         columns, o.pred_log) :
                  p \in Round2(expm1(o.pred_log))}
          : o \in PipelinePredict(OriginalModelFeatures(om), columns) }

\* ModelManager.predict_price
predict_price(fm, om, product_data) ==
    IF ~Truthy(fm) /\ om = "None"
    THEN {Raised("ValueError", "No price prediction models are loaded",
                 "absent", "not_called", {})}
    ELSE IF Truthy(fm) THEN predict_with_fast_models(fm, product_data)
    ELSE predict_with_original_model(om, product_data)

(***************************************************************************)
(* POST /predict/price of smart_retail (routes/price_predict.py)           *)
(***************************************************************************)
\* valid_genders of PriceRequest.validate_gender
valid_genders ==
    {<<"m", "e", "n">>, <<"w", "o", "m", "e", "n">>, <<"u", "n", "i", "s", "e", "x">>,
     <<"b", "o", "y", "s">>, <<"g", "i", "r", "l", "s">>}

\* PriceRequest of data_models.py: the fields of a body that break a
\* constraint of the model; pydantic reports every one of them in its 422
PriceRequestErrors(d) ==
    {f \in {"product_name"} : Len(d.product_name) < 1 \/ Len(d.product_name) > 500}
    \cup {f \in {"brand"} : Len(d.brand) < 1 \/ Len(d.brand) > 100}
    \cup {f \in {"gender"} : Lower(d.gender) \notin valid_genders}
    \cup {f \in {"category"} : Len(d.category) < 1 \/ Len(d.category) > 100}
    \cup {f \in {"rating_count"} : d.rating_count < 0}
    \cup {f \in {"discount_percent"} :
              d.discount_percent < 0 \/ d.discount_percent > 10000}

\* the body passes the validation of PriceRequest
sr_RequestValid(d) == PriceRequestErrors(d) = {}
\* the route with the status codes of its two except clauses swapped
RouteErrorStatus_Swapped(exc) == IF exc = "ValueError" THEN 500 ELSE 503

\* the except clauses of the route: ValueError -> 503, anything else -> 500
RouteErrorStatus(exc) == IF exc = "ValueError" THEN 503 ELSE 500

RouteErrorDetail(exc, msg) ==
    IF exc = "ValueError" THEN msg ELSE "Prediction failed: " \o msg

\* the confidence rule with 'watches' left out of its list
Confidence_JewelryOnly(product_type) ==
    IF product_type \in {"jewelry"} THEN "High" ELSE "Medium"

\* confidence = "High" if product_type in ['jewelry', 'watches'] else "Medium"
Confidence(product_type) ==
    IF product_type \in {"jewelry", "watches"} THEN "High" ELSE "Medium"

\* prediction.get('product_type') without its 'apparel' default
GetProductType_NoDefault(prediction) == prediction.product_type

\* prediction.get('product_type', 'apparel')
GetProductType(prediction) ==
    IF prediction.product_type = "absent" THEN "apparel" ELSE prediction.product_type

Response(endpoint, d, status, detail, o) ==
    [endpoint |-> endpoint, req |-> d, status |-> status, detail |-> detail,
     predicted_price |-> 0, product_type |-> "absent", model_type |-> "absent",
     confidence |-> "absent", classified |-> o.classified, pipeline |-> o.pipeline,
     exc |-> o.exc, columns |-> o.columns, pred_log |-> o.pred_log,
     errors |-> {}, explain |-> FALSE, explanation |-> <<>>]

\* the response the route gives for one outcome of model_manager.predict_price
sr_RouteResponse(d, o) ==
    IF o.kind = "raise"
    THEN Response("smart_retail", d, RouteErrorStatus(o.exc),
                  RouteErrorDetail(o.exc, o.msg), o)
    ELSE IF o.predicted_price = NaN \/ o.predicted_price < 0
    \* PredictionResponse(predicted_price: ge=0) raises pydantic's
    \* ValidationError, a ValueError, inside the try block
    THEN Response("smart_retail", d, RouteErrorStatus("ValueError"),
                  RouteErrorDetail("ValueError", "validation error for PredictionResponse"),
                  o)
    ELSE IF o.predicted_price = Inf
    \* the response body cannot be rendered as JSON
    THEN Response("smart_retail", d, 500, "Internal Server Error", o)
    ELSE [Response("smart_retail", d, 200, "", o) EXCEPT
             !.predicted_price = o.predicted_price,
             !.product_type = GetProductType(o),
             !.model_type = o.model_type,
             !.confidence = Confidence(GetProductType(o))]

sr_predict_price(d) ==
    /\ app = "smart_retail"
    /\ Started
    /\ Idle
    /\ IF ~sr_RequestValid(d)
       THEN resp' = [Response("smart_retail", d, 422, "validation error",
                              Raised("none", "", "absent", "not_called", {}))
                        EXCEPT !.errors = PriceRequestErrors(d)]
       ELSE \E o \in predict_price(fast_models["price_predict"],
                                   original_model["price_predict"], d) :
               resp' = sr_RouteResponse(d, o)
    /\ UNCHANGED <<env, fast_models, original_model, pc, health, call, prev, slots>>

\* ModelManager.get_health_status
get_health_status(fm, om) ==
    [endpoint |-> "smart_retail",
     fast_models_loaded |-> fm # None,
     original_model_loaded |-> om # "None",
     model_type_in_use |-> IF Truthy(fm) THEN "fast_multi_model"
                           ELSE "original_single_model"]

\* GET /health/ of smart_retail (routes/health.py)
sr_health_check ==
    /\ app = "smart_retail"
    /\ Started
    /\ Idle
    /\ health' = get_health_status(fast_models["health"], original_model["health"])
    /\ UNCHANGED <<env, fast_models, original_model, pc, resp, call, prev, slots>>

(***************************************************************************)
(* server/app.py: POST /predict_price and GET /healthz                     *)
(***************************************************************************)
\* PriceRequest of server/app.py declares the types of its fields and no
\* constraint on their values: no text or number of a body breaks it
srv_PriceRequestErrors(d) ==
    {f \in {"product_name", "brand", "gender", "category"} : d[f] \notin Seq(STRING)}
    \cup {f \in {"rating_count", "discount_percent"} : d[f] \notin Int}

\* guard of the 503: fast_models is None and original_model is None
srv_NoModelsLoaded(fm, om) == fm = None /\ om = "None"

\* the multi-model branch: everything raised inside its try block, the 404
\* HTTPException included, is caught by `except Exception` and re-raised as 500
srv_FastResponses(fm, d) ==
    LET product_type == srv_classify_product_type(d)
        columns      == srv_CombinedFeatureNames
    IN  IF product_type \notin fm.models
        THEN {Response("server", d, 500, "Prediction failed: 404: No model available for product type",
                       Raised("HTTPException", "", product_type, "not_called", {}))}
        ELSE UNION {
               IF o.kind = "raise"
               THEN {Response("server", d, 500, "Prediction failed: pipeline",
                              Raised(o.exc, "", product_type, "raised", columns))}
               ELSE {[Response("server", d, 200, "",
                               Returned(p, product_type, "fast_multi_model",
                                        product_type, columns, o.pred_log)) EXCEPT
                         !.predicted_price = p,
                         !.product_type = product_type,
                         !.model_type = "fast_multi_model"] :
                       p \in Round2(ApplyConstraints(expm1(o.pred_log), product_type))}
               : o \in PipelinePredict(get_features_for_product_type(product_type),
                                       columns) }

\* the else branch: no try block, so whatever is raised leaves the handler and
\* the framework answers 500 Internal Server Error
srv_OriginalResponses(om, d) ==
    LET columns == RequestFields
    IN  IF om = "None"
        THEN {Response("server", d, 500, "Internal Server Error",
                       Raised("AttributeError", "", "absent", "not_called", {}))}
        ELSE UNION {
               IF o.kind = "raise"
               THEN {Response("server", d, 500, "Internal Server Error",
                              Raised(o.exc, "", "absent", "raised", columns))}
               ELSE {IF p \in {Inf, NaN}
                     THEN Response("server", d, 500, "Internal Server Error",
                                   Returned(p, "absent", "original_single_model",
                                            "absent", columns, o.pred_log))
                     ELSE [Response("server", d, 200, "",
                                    Returned(p, "absent", "original_single_model",
                                             "absent", columns, o.pred_log)) EXCEPT
                              !.predicted_price = p,
                              !.model_type = "original_single_model"] :
                       p \in Round2(expm1(o.pred_log))}
               : o \in PipelinePredict(OriginalModelFeatures(om), columns) }

srv_predict_price(d) ==
    /\ app = "server"
    /\ Started
    /\ Idle
    /\ LET fm == fast_models["server"]
           om == original_model["server"]
       IN  IF srv_PriceRequestErrors(d) # {}
           THEN resp' = [Response("server", d, 422, "validation error",
                                  Raised("none", "", "absent", "not_called", {}))
                            EXCEPT !.errors = srv_PriceRequestErrors(d)]
           ELSE IF srv_NoModelsLoaded(fm, om)
           THEN resp' = Response("server", d, 503, "No price models are loaded.",
                                 Raised("HTTPException", "", "absent", "not_called", {}))
           ELSE IF Truthy(fm)
           THEN \E r \in srv_FastResponses(fm, d) : resp' = r
           ELSE \E r \in srv_OriginalResponses(om, d) : resp' = r
    /\ UNCHANGED <<env, fast_models, original_model, pc, health, call, prev, slots>>

srv_healthz ==
    /\ app = "server"
    /\ Started
    /\ Idle
    /\ health' =
          [endpoint |-> "server",
           fast_models_loaded |-> fast_models["server"] # None,
           original_model_loaded |-> original_model["server"] # "None",
           model_type_in_use |-> IF Truthy(fast_models["server"])
                                 THEN "fast_multi_model"
                                 ELSE "original_single_model"]
    /\ UNCHANGED <<env, fast_models, original_model, pc, resp, call, prev, slots>>

\* price_form of streamlit_app.py: the confidence it shows for a result of
\* POST /predict_price, which carries no confidence of its own
ui_confidence(result) ==
    IF result.product_type \in {"jewelry", "watches"} THEN "High" ELSE "Medium"

\* the handler has returned and its response has been sent
ResponseSent ==
    /\ ~Idle
    /\ resp' = NoResp
    /\ health' = NoHealth
    /\ UNCHANGED <<env, fast_models, original_model, pc, call, prev, slots>>

(***************************************************************************)
(* Specification                                                           *)
(***************************************************************************)
Next ==
    \/ \E h \in Holders : LoadFast(h)
    \/ \E h \in Holders : LoadOriginal(h)
    \/ \E h \in Holders : LoadFallbackFile(h)
    \/ \E h \in Holders : CreateFallbackModel(h)
    \/ \E d \in Descriptors : sr_predict_price(d)
    \/ sr_health_check
    \/ \E d \in Descriptors : srv_predict_price(d)
    \/ srv_healthz
    \/ ResponseSent

Spec == Init /\ [][Next]_vars

(***************************************************************************)
(* Direct calls of the classifiers, over every pairing of the categories   *)
(* and product names of the descriptors and over dicts that lack a key     *)
(***************************************************************************)
ClassifierInputs ==
    {[product_name |-> n.product_name, category |-> c.category] :
        n \in Descriptors, c \in Descriptors}
    \cup {NoCategory, NoKeys}

CallClassify(d) ==
    /\ call' = [fn |-> "ProductClassifier.classify_product_type", arg |-> d,
                result |-> classify_product_type(d)]
    /\ UNCHANGED <<env, fast_models, original_model, pc, resp, health, prev, slots>>

CallSrvClassify(d) ==
    /\ call' = [fn |-> "server.classify_product_type", arg |-> d,
                result |-> srv_classify_product_type(d)]
    /\ UNCHANGED <<env, fast_models, original_model, pc, resp, health, prev, slots>>

ClassifyInit ==
    /\ Init
    /\ app = "smart_retail"
    /\ artifacts = [fast |-> "missing", original |-> "missing", fallback |-> "missing"]
    /\ fit_ok

ClassifyNext ==
    \/ \E d \in ClassifierInputs : CallClassify(d)
    \/ \E d \in ClassifierInputs : CallSrvClassify(d)

ClassifySpec == ClassifyInit /\ [][ClassifyNext]_vars

(***************************************************************************)
(* InputValidator.validate_price_request (utils/validators.py), called     *)
(* directly, next to the validation POST /predict/price performs           *)
(***************************************************************************)
VALID_GENDERS ==
    {<<"m", "e", "n">>,
     <<"w", "o", "m", "e", "n">>,
     <<"u", "n", "i", "s", "e", "x">>,
     <<"b", "o", "y", "s">>,
     <<"g", "i", "r", "l", "s">>}

VALID_CATEGORIES ==
    {<<"s", "h", "i", "r", "t">>,
     <<"j", "e", "a", "n", "s">>,
     <<"d", "r", "e", "s", "s">>,
     <<"s", "h", "o", "e", "s">>,
     <<"j", "a", "c", "k", "e", "t">>,
     <<"t", "o", "p">>,
     <<"b", "o", "t", "t", "o", "m">>,
     <<"a", "c", "c", "e", "s", "s", "o", "r", "i", "e", "s">>,
     <<"j", "e", "w", "e", "l", "r", "y">>,
     <<"w", "a", "t", "c", "h">>,
     <<"b", "a", "g">>,
     <<"h", "a", "t">>}

\* truthiness of data.get(field) for a text field: present and not empty
PyTruthy(data, field) == field \in DOMAIN data /\ Len(data[field]) > 0

\* validate_price_request returning at its first error
validate_price_request_FirstOnly(data) ==
    LET required_fields == <<"product_name", "brand", "gender", "category">>
        missing  == SelectSeq(required_fields, LAMBDA f : ~PyTruthy(data, f))
        errors1  == [i \in 1..Len(missing) |-> "Missing required field: " \o missing[i]]
        errors2  == IF PyTruthy(data, "gender") /\ data.gender \notin VALID_GENDERS
                    THEN Append(errors1, "Invalid gender") ELSE errors1
        errors3  == IF PyTruthy(data, "category")
                       /\ Lower(data.category) \notin {Lower(c) : c \in VALID_CATEGORIES}
                    THEN Append(errors2, "Invalid category") ELSE errors2
        errors4  == IF "rating_count" \in DOMAIN data /\ data.rating_count < 0
                    THEN Append(errors3, "rating_count must be non-negative")
                    ELSE errors3
        errors5  == IF "discount_percent" \in DOMAIN data
                       /\ ~(0 <= data.discount_percent /\ data.discount_percent <= 10000)
                    THEN Append(errors4, "discount_percent must be between 0 and 100")
                    ELSE errors4
        errors6  == IF PyTruthy(data, "product_name") /\ Len(data.product_name) > 200
                    THEN Append(errors5, "product_name must be 200 characters or less")
                    ELSE errors5
        errors7  == IF PyTruthy(data, "brand") /\ Len(data.brand) > 50
                    THEN Append(errors6, "brand must be 50 characters or less")
                    ELSE errors6
    IN  IF errors7 = <<>> THEN <<>> ELSE <<errors7[1]>>

\* InputValidator.validate_price_request: the list of errors, in the order
\* the checks append them (the numeric fields of the bodies used here are
\* numbers, so the "must be a valid integer / number" branches do not arise)
validate_price_request(data) ==
    LET required_fields == <<"product_name", "brand", "gender", "category">>
        missing  == SelectSeq(required_fields, LAMBDA f : ~PyTruthy(data, f))
        errors1  == [i \in 1..Len(missing) |-> "Missing required field: " \o missing[i]]
        errors2  == IF PyTruthy(data, "gender") /\ data.gender \notin VALID_GENDERS
                    THEN Append(errors1, "Invalid gender") ELSE errors1
        errors3  == IF PyTruthy(data, "category")
                       /\ Lower(data.category) \notin {Lower(c) : c \in VALID_CATEGORIES}
                    THEN Append(errors2, "Invalid category") ELSE errors2
        errors4  == IF "rating_count" \in DOMAIN data /\ data.rating_count < 0
                    THEN Append(errors3, "rating_count must be non-negative")
                    ELSE errors3
        errors5  == IF "discount_percent" \in DOMAIN data
                       /\ ~(0 <= data.discount_percent /\ data.discount_percent <= 10000)
                    THEN Append(errors4, "discount_percent must be between 0 and 100")
                    ELSE errors4
        errors6  == IF PyTruthy(data, "product_name") /\ Len(data.product_name) > 200
                    THEN Append(errors5, "product_name must be 200 characters or less")
                    ELSE errors5
        errors7  == IF PyTruthy(data, "brand") /\ Len(data.brand) > 50
                    THEN Append(errors6, "brand must be 50 characters or less")
                    ELSE errors6
    IN  errors7

\* a text of n letters
LongText(n) == [i \in 1..n |-> "a"]

\* request bodies around every bound the two validations test
ValidateBodies ==
    [product_name : {<<>>, CottonTee.product_name, LongText(201)},
     brand : {<<>>, CottonTee.brand, LongText(51)},
     gender : {<<>>, <<"m", "e", "n">>, <<"M", "e", "n">>, <<"a", "l", "i", "e", "n">>},
     category : {<<>>, <<"s", "h", "i", "r", "t">>, <<"W", "a", "t", "c", "h">>,
                 <<"r", "i", "n", "g">>},
     rating_count : {0 - 5, 0, 500},
     discount_percent : {0 - 1, 0, 10000, 10001}]

CallValidatePriceRequest(d) ==
    /\ Idle
    /\ call.fn = "none"
    /\ call' = [fn |-> "InputValidator.validate_price_request", arg |-> d,
                result |-> validate_price_request(d)]
    /\ UNCHANGED <<env, fast_models, original_model, pc, resp, health, prev, slots>>

\* the direct call has returned
CallReturned ==
    /\ call.fn # "none"
    /\ call' = NoCall
    /\ UNCHANGED <<env, fast_models, original_model, pc, resp, health, prev, slots>>

\* smart_retail started with the multi-model artifact holding all four types
ValidateInit ==
    /\ Init
    /\ app = "smart_retail"
    /\ artifacts = [fast |-> "valid", original |-> "missing", fallback |-> "missing"]
    /\ artifact_models = ProductTypes
    /\ fit_ok

ValidateNext ==
    \/ \E h \in Holders : LoadFast(h)
    \/ \E h \in Holders : LoadOriginal(h)
    \/ \E h \in Holders : LoadFallbackFile(h)
    \/ \E h \in Holders : CreateFallbackModel(h)
    \/ \E d \in ValidateBodies : call.fn = "none" /\ sr_predict_price(d)
    \/ ResponseSent
    \/ \E d \in ValidateBodies \cup {NoCategory, NoKeys} : CallValidatePriceRequest(d)
    \/ CallReturned

ValidateSpec == ValidateInit /\ [][ValidateNext]_vars

(***************************************************************************)
(* Repeated calls of ModelManager.predict_price through POST /predict/price,*)
(* each response remembered when the next request arrives                  *)
(***************************************************************************)
\* the response has been sent and is remembered as the previous one
ResponseRecorded ==
    /\ resp # NoResp
    /\ prev' = resp
    /\ resp' = NoResp
    /\ health' = NoHealth
    /\ UNCHANGED <<env, fast_models, original_model, pc, call, slots>>

\* smart_retail started with a full or a partial multi-model artifact, or with
\* a single-model artifact only
RepeatInit ==
    /\ Init
    /\ app = "smart_retail"
    /\ fit_ok
    /\ artifacts.fallback = "missing"
    /\ \/ /\ artifacts.fast = "valid"
          /\ artifacts.original = "missing"
          /\ artifact_models \in {ProductTypes, {"jewelry"}}
       \/ /\ artifacts.fast = "missing"
          /\ artifacts.original = "valid"

RepeatNext ==
    \/ \E h \in Holders : LoadFast(h)
    \/ \E h \in Holders : LoadOriginal(h)
    \/ \E h \in Holders : LoadFallbackFile(h)
    \/ \E h \in Holders : CreateFallbackModel(h)
    \/ \E d \in Descriptors : sr_predict_price(d)
    \/ ResponseRecorded

RepeatSpec == RepeatInit /\ [][RepeatNext]_vars

(***************************************************************************)
(* POST /predict_price of server/app.py run by the worker threads of the   *)
(* pool, one step per read of the module globals: the 503 guard and the    *)
(* dispatch test, the classification and registry lookup, the prediction.  *)
(***************************************************************************)
\* the thread has finished its handler with response r
Finish(t, d, r) ==
    slots' = [slots EXCEPT ![t] = [pc |-> "done", req |-> d,
                                   product_type |-> slots[t].product_type,
                                   resp |-> r]]

\* lines 306-311: the 503 guard and the `if fast_models` dispatch test
srv_Begin(t, d) ==
    /\ app = "server"
    /\ Started
    /\ slots[t].pc = "idle"
    /\ LET fm == fast_models["server"]
           om == original_model["server"]
       IN  IF srv_PriceRequestErrors(d) # {}
           THEN Finish(t, d, [Response("server", d, 422, "validation error",
                                       Raised("none", "", "absent", "not_called", {}))
                                 EXCEPT !.errors = srv_PriceRequestErrors(d)])
           ELSE IF srv_NoModelsLoaded(fm, om)
           THEN Finish(t, d, Response("server", d, 503, "No price models are loaded.",
                                      Raised("HTTPException", "", "absent",
                                             "not_called", {})))
           ELSE slots' = [slots EXCEPT ![t] =
                             [pc |-> IF Truthy(fm) THEN "fast" ELSE "original",
                              req |-> d, product_type |-> "absent", resp |-> NoResp]]
    /\ UNCHANGED <<env, fast_models, original_model, pc, resp, health, call, prev>>

\* lines 313-315 with the type kept in a module global that every thread
\* about to predict reads, instead of a local of the handler
srv_Classify_SharedType(t) ==
    /\ slots[t].pc = "fast"
    /\ LET d            == slots[t].req
           product_type == srv_classify_product_type(d)
       IN  IF product_type \notin fast_models["server"].models
           THEN Finish(t, d, Response("server", d, 500,
                                      "Prediction failed: 404: No model available for product type",
                                      Raised("HTTPException", "", product_type,
                                             "not_called", {})))
           ELSE slots' = [u \in WorkerThreads |->
                             IF u = t
                             THEN [slots[t] EXCEPT !.pc = "predict",
                                                   !.product_type = product_type]
                             ELSE IF slots[u].pc = "predict"
                             THEN [slots[u] EXCEPT !.product_type = product_type]
                             ELSE slots[u]]
    /\ UNCHANGED <<env, fast_models, original_model, pc, resp, health, call, prev>>

\* lines 313-315 and 338-339: classify, then look the type up in the registry
srv_Classify(t) ==
    /\ slots[t].pc = "fast"
    /\ LET d            == slots[t].req
           product_type == srv_classify_product_type(d)
       IN  IF product_type \notin fast_models["server"].models
           THEN Finish(t, d, Response("server", d, 500,
                                      "Prediction failed: 404: No model available for product type",
                                      Raised("HTTPException", "", product_type,
                                             "not_called", {})))
           ELSE slots' = [slots EXCEPT ![t].pc = "predict",
                                       ![t].product_type = product_type]
    /\ UNCHANGED <<env, fast_models, original_model, pc, resp, health, call, prev>>

\* lines 318-337 and 340-342: build the record, predict, clamp, round
srv_PredictFast(t) ==
    /\ slots[t].pc = "predict"
    /\ LET d            == slots[t].req
           product_type == slots[t].product_type
           columns      == srv_CombinedFeatureNames
       IN  \E o \in PipelinePredict(get_features_for_product_type(product_type),
                                    columns) :
              IF o.kind = "raise"
              THEN Finish(t, d, Response("server", d, 500, "Prediction failed: pipeline",
                                         Raised(o.exc, "", product_type, "raised",
                                                columns)))
              ELSE \E p \in Round2(ApplyConstraints(expm1(o.pred_log), product_type)) :
                      Finish(t, d, [Response("server", d, 200, "",
                                             Returned(p, product_type, "fast_multi_model",
                                                      product_type, columns, o.pred_log))
                                       EXCEPT !.predicted_price = p,
                                              !.product_type = product_type,
                                              !.model_type = "fast_multi_model"])
    /\ UNCHANGED <<env, fast_models, original_model, pc, resp, health, call, prev>>

\* lines 345-349: the else branch
srv_PredictOriginal(t) ==
    /\ slots[t].pc = "original"
    /\ \E r \in srv_OriginalResponses(original_model["server"], slots[t].req) :
          Finish(t, slots[t].req, r)
    /\ UNCHANGED <<env, fast_models, original_model, pc, resp, health, call, prev>>

\* the response has been sent and the thread returns to the pool
srv_Return(t) ==
    /\ slots[t].pc = "done"
    /\ slots' = [slots EXCEPT ![t] = IdleSlot]
    /\ UNCHANGED <<env, fast_models, original_model, pc, resp, health, call, prev>>

\* the bodies the worker threads are given: the system test's four
ConcurrentBodies == {GoldRing, AutoWatch, SilkSaree, CottonTee}

\* a process started with a full or a partial multi-model artifact, or with a
\* single-model artifact only
ConcurrentInit ==
    /\ Init
    /\ fit_ok
    /\ artifacts.fallback = "missing"
    /\ \/ /\ artifacts.fast = "valid"
          /\ artifacts.original = "missing"
          /\ artifact_models \in {ProductTypes, {"jewelry", "watches"}}
       \/ /\ artifacts.fast = "missing"
          /\ artifacts.original = "valid"

ConcurrentNext ==
    \/ \E h \in Holders : LoadFast(h)
    \/ \E h \in Holders : LoadOriginal(h)
    \/ \E h \in Holders : LoadFallbackFile(h)
    \/ \E h \in Holders : CreateFallbackModel(h)
    \/ \E t \in WorkerThreads, d \in ConcurrentBodies : srv_Begin(t, d)
    \/ \E t \in WorkerThreads : srv_Classify(t)
    \/ \E t \in WorkerThreads : srv_PredictFast(t)
    \/ \E t \in WorkerThreads : srv_PredictOriginal(t)
    \/ \E t \in WorkerThreads : srv_Return(t)
    \/ srv_healthz
    \/ \E d \in ConcurrentBodies : sr_predict_price(d)
    \/ sr_health_check
    \/ ResponseSent

ConcurrentSpec == ConcurrentInit /\ [][ConcurrentNext]_vars

(***************************************************************************)
(* Derived features: karat, brand_avg_price, brand_prestige, price_range,  *)
(* as the serving code computes them and as the training code does         *)
(***************************************************************************)
Digits == {"0", "1", "2", "3", "4", "5", "6", "7", "8", "9"}

\* the characters \s matches that the names used here contain
Whitespace == {" ", "\t"}

\* value of a decimal digit
DigitValue(c) ==
    CHOOSE n \in 0..9 : <<"0", "1", "2", "3", "4", "5", "6", "7", "8", "9">>[n + 1] = c

\* float(group): the number the digits s[i..j] spell
RECURSIVE DigitsToInt(_, _, _)
DigitsToInt(s, i, j) ==
    IF j < i THEN 0 ELSE DigitsToInt(s, i, j - 1) * 10 + DigitValue(s[j])

\* (\d+) is greedy: the end of the digits that start at i
RECURSIVE DigitsEnd(_, _)
DigitsEnd(s, i) ==
    IF i < Len(s) /\ s[i + 1] \in Digits THEN DigitsEnd(s, i + 1) ELSE i

\* \s* is greedy: the first index from j on that holds no whitespace
RECURSIVE SkipWhitespace(_, _)
SkipWhitespace(s, j) ==
    IF j <= Len(s) /\ s[j] \in Whitespace THEN SkipWhitespace(s, j + 1) ELSE j

\* the pattern (\d+)\s*kt, ignoring case, matches with its first digit at i
KaratMatchAt(s, i) ==
    /\ s[i] \in Digits
    /\ LET k == SkipWhitespace(s, DigitsEnd(s, i) + 1)
       IN  /\ k + 1 <= Len(s)
           /\ LowerChar(s[k]) = "k"
           /\ LowerChar(s[k + 1]) = "t"

\* the karat rule matching only when 'kt' follows the digits with no space
karat_NoWhitespace(product_name) ==
    LET starts == {i \in 1..Len(product_name) :
                      /\ product_name[i] \in Digits
                      /\ LET k == DigitsEnd(product_name, i) + 1
                         IN  /\ k + 1 <= Len(product_name)
                             /\ LowerChar(product_name[k]) = "k"
                             /\ LowerChar(product_name[k + 1]) = "t"}
    IN  IF starts = {} THEN 0
        ELSE LET i == CHOOSE a \in starts : \A b \in starts : a <= b
             IN  DigitsToInt(product_name, i, DigitsEnd(product_name, i))

\* features['karat'] of _extract_enhanced_features: re.search takes the
\* leftmost match, group(1) is its digits
karat(product_name) ==
    LET starts == {i \in 1..Len(product_name) : KaratMatchAt(product_name, i)}
    IN  IF starts = {} THEN 0
        ELSE LET i == CHOOSE a \in starts : \A b \in starts : a <= b
             IN  DigitsToInt(product_name, i, DigitsEnd(product_name, i))

\* features['karat'] of extract_enhanced_features of server/app.py
srv_karat(product_name) ==
    LET starts == {i \in 1..Len(product_name) : KaratMatchAt(product_name, i)}
    IN  IF starts = {} THEN 0
        ELSE LET i == CHOOSE a \in starts : \A b \in starts : a <= b
             IN  DigitsToInt(product_name, i, DigitsEnd(product_name, i))

\* product names put together from a beginning, digits, spaces and an end
KaratNames ==
    {a \o b \o c \o d :
        a \in {<<>>,
              <<"M", "e", "n", " ">>,
              <<"1", "2", " ">>,
              <<"3", ".">>,
              <<"R", "i", "n", "g", " ", "9">>,
              <<"2", "2", "k", "t", " ">>},
        b \in {<<>>,
              <<"8">>,
              <<"1", "8">>,
              <<"0", "0", "7">>},
        c \in {<<>>,
              <<" ">>,
              <<" ", " ">>},
        d \in {<<"k", "t", " ", "G", "o", "l", "d", " ", "R", "i", "n", "g">>,
              <<"K", "T">>,
              <<"K", "t">>,
              <<"k">>,
              <<"g", "m">>,
              <<"t", "k">>,
              <<>>}}

\* the descriptor of the karat scenario
KaratRing ==
    [product_name |-> <<"M", "e", "n", " ", "1", "8", "k", "t", " ", "G", "o", "l", "d", " ", "R", "i", "n", "g">>,
     category |-> <<"r", "i", "n", "g">>]

CallExtractKarat(name) ==
    /\ call' = [fn |-> "ModelManager._extract_enhanced_features",
                arg |-> [product_name |-> name, category |-> KaratRing.category],
                result |-> [karat |-> karat(name),
                            product_type |->
                                classify_product_type(
                                    [product_name |-> name,
                                     category |-> KaratRing.category])]]
    /\ UNCHANGED <<env, fast_models, original_model, pc, resp, health, prev, slots>>

CallSrvExtractKarat(name) ==
    /\ call' = [fn |-> "server.extract_enhanced_features",
                arg |-> [product_name |-> name, category |-> KaratRing.category],
                result |-> [karat |-> srv_karat(name),
                            product_type |->
                                srv_classify_product_type(
                                    [product_name |-> name,
                                     category |-> KaratRing.category])]]
    /\ UNCHANGED <<env, fast_models, original_model, pc, resp, health, prev, slots>>

KaratNext ==
    \/ \E name \in KaratNames : CallExtractKarat(name)
    \/ \E name \in KaratNames : CallSrvExtractKarat(name)

KaratSpec == ClassifyInit /\ [][KaratNext]_vars

(***************************************************************************)
(* Startup while the artifacts directory changes: a file that is deleted   *)
(* between the loads of two ModelManager instances                         *)
(***************************************************************************)
ArtifactFiles == {"fast", "original", "fallback"}

\* the file is deleted while the process is starting
ArtifactRemoved(f) ==
    /\ ~Started
    /\ artifacts[f] # "missing"
    /\ artifacts' = [artifacts EXCEPT ![f] = "missing"]
    /\ artifact_models' = IF f = "fast" THEN {} ELSE artifact_models
    /\ artifact_pipeline' =
          IF f = "original" THEN [artifact_pipeline EXCEPT !.original = "improved"]
          ELSE IF f = "fallback"
               THEN [artifact_pipeline EXCEPT !.fallback = "fallback_file"]
          ELSE artifact_pipeline
    /\ UNCHANGED <<app, fit_ok, fast_models, original_model, pc,
                   resp, health, call, prev, slots>>

\* every artifact that is on disk is a loadable one, written by the training
\* scripts of the repository
DriftInit ==
    /\ Init
    /\ fit_ok
    /\ \A f \in ArtifactFiles : artifacts[f] \in {"missing", "valid"}
    /\ artifacts.fast = "valid" => artifact_models = ProductTypes
    /\ artifacts.original = "valid" => artifact_pipeline.original = "basic"
    /\ artifacts.fallback = "valid" => artifact_pipeline.fallback = "fallback_basic"

DriftNext ==
    \/ \E h \in Holders : LoadFast(h)
    \/ \E h \in Holders : LoadOriginal(h)
    \/ \E h \in Holders : LoadFallbackFile(h)
    \/ \E h \in Holders : CreateFallbackModel(h)
    \/ \E f \in ArtifactFiles : ArtifactRemoved(f)
    \/ \E d \in ConcurrentBodies : sr_predict_price(d)
    \/ sr_health_check
    \/ \E d \in ConcurrentBodies : srv_predict_price(d)
    \/ srv_healthz
    \/ ResponseSent

DriftSpec == DriftInit /\ [][DriftNext]_vars

(***************************************************************************)
(* Brand features.  brand_prestige_scores is the dict the training saved   *)
(* in the multi-model artifact: brand -> mean original_price, in rupees.   *)
(***************************************************************************)
\* brand_prestige_scores.get(brand, 0)
ScoreOf(brand_prestige_scores, brand) ==
    IF brand \in DOMAIN brand_prestige_scores THEN brand_prestige_scores[brand] ELSE 0

\* features['brand_avg_price'] of _extract_enhanced_features
brand_avg_price(product_data, brand_prestige_scores) ==
    ScoreOf(brand_prestige_scores, Lower(Get(product_data, "brand")))

\* the tiers with the thresholds themselves left in the tier below
brand_prestige_Above(product_data, brand_prestige_scores) ==
    LET brand     == Lower(Get(product_data, "brand"))
        avg_price == ScoreOf(brand_prestige_scores, brand)
    IN  IF avg_price > 5000 THEN "ultra_premium"
        ELSE IF avg_price > 2000 THEN "premium"
        ELSE IF avg_price > 500 THEN "mid_range"
        ELSE "budget"

\* features['brand_prestige'] of _extract_enhanced_features
brand_prestige(product_data, brand_prestige_scores) ==
    LET brand     == Lower(Get(product_data, "brand"))
        avg_price == ScoreOf(brand_prestige_scores, brand)
    IN  IF avg_price >= 5000 THEN "ultra_premium"
        ELSE IF avg_price >= 2000 THEN "premium"
        ELSE IF avg_price >= 500 THEN "mid_range"
        ELSE "budget"

\* features['price_range'] of _extract_enhanced_features
price_range(product_data) == "medium"

\* brand_avg_price and brand_prestige of extract_enhanced_features of
\* server/app.py
srv_brand_avg_price(row, brand_prestige_scores) ==
    ScoreOf(brand_prestige_scores, Lower(Get(row, "brand")))

srv_brand_prestige(row, brand_prestige_scores) ==
    LET brand     == Lower(Get(row, "brand"))
        avg_price == ScoreOf(brand_prestige_scores, brand)
    IN  IF avg_price >= 5000 THEN "ultra_premium"
        ELSE IF avg_price >= 2000 THEN "premium"
        ELSE IF avg_price >= 500 THEN "mid_range"
        ELSE "budget"

\* features['price_range'] of extract_enhanced_features of server/app.py
srv_price_range(row) == "medium"

\* FeatureExtractor.extract_brand_features
extract_brand_features(product_data, brand_prestige_scores) ==
    LET brand     == Lower(Get(product_data, "brand"))
        avg_price == ScoreOf(brand_prestige_scores, brand)
    IN  [brand_avg_price |-> avg_price,
         brand_prestige |-> IF avg_price >= 5000 THEN "ultra_premium"
                            ELSE IF avg_price >= 2000 THEN "premium"
                            ELSE IF avg_price >= 500 THEN "mid_range"
                            ELSE "budget",
         is_premium_brand |-> avg_price >= 2000]

\* brand_avg_prices.quantile(k/4) for a table of n brands with n - 1 a
\* multiple of 4, where the quantile is an entry of the table and nothing is
\* interpolated: the entry at position k * (n - 1) / 4 of the sorted values
Quantile(brand_avg_prices, k) ==
    LET n   == Cardinality(DOMAIN brand_avg_prices)
        pos == (k * (n - 1)) \div 4
    IN  CHOOSE v \in {brand_avg_prices[b] : b \in DOMAIN brand_avg_prices} :
            /\ Cardinality({b \in DOMAIN brand_avg_prices : brand_avg_prices[b] < v}) <= pos
            /\ Cardinality({b \in DOMAIN brand_avg_prices : brand_avg_prices[b] <= v}) > pos

\* get_brand_prestige of FastPricePredictor.extract_enhanced_features: the
\* brand is looked up as it stands in the data, the thresholds are the
\* quartiles of the table
get_brand_prestige(brand, brand_avg_prices) ==
    LET avg_price == ScoreOf(brand_avg_prices, brand)
        q25       == Quantile(brand_avg_prices, 1)
        q50       == Quantile(brand_avg_prices, 2)
        q75       == Quantile(brand_avg_prices, 3)
    IN  IF avg_price >= q75 THEN "ultra_premium"
        ELSE IF avg_price >= q50 THEN "premium"
        ELSE IF avg_price >= q25 THEN "mid_range"
        ELSE "budget"

\* df['price_range'] of the training: pd.cut(original_price) with bins
\* (0, 500], (500, 1000], (1000, 2000], (2000, 5000], (5000, 20000],
\* (20000, inf), and nan outside them
train_price_range(original_price) ==
    IF original_price <= 0 THEN "nan"
    ELSE IF original_price <= 500 THEN "very_low"
    ELSE IF original_price <= 1000 THEN "low"
    ELSE IF original_price <= 2000 THEN "medium"
    ELSE IF original_price <= 5000 THEN "high"
    ELSE IF original_price <= 20000 THEN "very_high"
    ELSE "ultra_high"

\* brand-price tables of five brands and of one
BrandTables ==
    {<<"t", "a", "n", "i", "s", "h", "q">> :> 45000 @@
     <<"t", "i", "t", "a", "n">> :> 5000 @@
     <<"s", "a", "b", "y", "a", "s", "a", "c", "h", "i">> :> 2000 @@
     <<"r", "o", "a", "d", "s", "t", "e", "r">> :> 500 @@
     <<"z", "a", "r", "a">> :> 1999,
     <<"Z", "a", "r", "a">> :> 8000 @@
     <<"h", "&", "m">> :> 700 @@
     <<"f", "o", "s", "s", "i", "l">> :> 4999 @@
     <<"c", "a", "s", "i", "o">> :> 499 @@
     <<"f", "a", "b", "i", "n", "d", "i", "a">> :> 0,
     <<"t", "i", "t", "a", "n">> :> 3000,
     <<"t", "a", "n", "i", "s", "h", "q">> :> 9000 @@
     <<"s", "a", "b", "y", "a", "s", "a", "c", "h", "i">> :> 5000 @@
     <<"t", "i", "t", "a", "n">> :> 2000 @@
     <<"z", "a", "r", "a">> :> 500 @@
     <<"r", "o", "a", "d", "s", "t", "e", "r">> :> 100}

\* the brands of the tables, some of them in another letter case, a brand of
\* no table and the empty brand
Brands ==
    UNION {DOMAIN t : t \in BrandTables}
    \cup {<<"T", "a", "n", "i", "s", "h", "q">>, <<"Z", "A", "R", "A">>, <<"u", "n", "k", "n", "o", "w", "n">>, <<>>}

OriginalPrices == {0, 300, 500, 501, 1500, 2000, 3000, 10000, 30000}

\* products of the training data: a brand and the price the model is fitted on
BrandProducts == [brand : Brands, original_price : OriginalPrices]

CallExtractBrand(product, scores) ==
    /\ call' = [fn |-> "ModelManager._extract_enhanced_features",
                arg |-> [product |-> product, scores |-> scores],
                result |-> [brand_avg_price |-> brand_avg_price(product, scores),
                            brand_prestige |-> brand_prestige(product, scores),
                            price_range |-> price_range(product)]]
    /\ UNCHANGED <<env, fast_models, original_model, pc, resp, health, prev, slots>>

CallSrvExtractBrand(product, scores) ==
    /\ call' = [fn |-> "server.extract_enhanced_features",
                arg |-> [product |-> product, scores |-> scores],
                result |-> [brand_avg_price |-> srv_brand_avg_price(product, scores),
                            brand_prestige |-> srv_brand_prestige(product, scores),
                            price_range |-> srv_price_range(product)]]
    /\ UNCHANGED <<env, fast_models, original_model, pc, resp, health, prev, slots>>

CallExtractBrandFeatures(product, scores) ==
    /\ call' = [fn |-> "FeatureExtractor.extract_brand_features",
                arg |-> [product |-> product, scores |-> scores],
                result |-> extract_brand_features(product, scores)]
    /\ UNCHANGED <<env, fast_models, original_model, pc, resp, health, prev, slots>>

BrandNext ==
    \/ \E product \in BrandProducts, scores \in BrandTables :
          CallExtractBrand(product, scores)
    \/ \E product \in BrandProducts, scores \in BrandTables :
          CallSrvExtractBrand(product, scores)
    \/ \E product \in BrandProducts, scores \in BrandTables :
          CallExtractBrandFeatures(product, scores)

BrandSpec == ClassifyInit /\ [][BrandNext]_vars

(***************************************************************************)
(* POST /predict/price?explain=true of smart_retail.  An Optional value is *)
(* a sequence of at most one element: <<>> is None.  The body carries the  *)
(* optional field fabric, which request.dict() gives as None when unset.   *)
(***************************************************************************)
\* product_data.get('fabric', ''): request.dict() always holds the key
Fabric(product_data) ==
    IF "fabric" \in DOMAIN product_data THEN product_data.fabric ELSE <<>>

\* PricePredictionExplainer.explain_prediction: None.lower() on an unset
\* fabric and the division by 1 - discount / 100 raise, otherwise the dict is
\* returned (its fields that echo the prediction are kept)
explain_prediction(product_data, predicted_price, model_type, product_type) ==
    IF Fabric(product_data) = <<>>
    THEN [kind |-> "raise", exc |-> "AttributeError", explanation |-> <<>>]
    ELSE IF product_data.discount_percent > 0 /\ product_data.discount_percent = 10000
    THEN [kind |-> "raise", exc |-> "ZeroDivisionError", explanation |-> <<>>]
    ELSE [kind |-> "return", exc |-> "none",
          explanation |-> << [predicted_price |-> predicted_price,
                              model_type |-> model_type,
                              product_type |-> product_type] >>]

\* the explanation step without its own try block: what explain_prediction
\* raises reaches the except clauses of the route
WithExplanation_Propagating(r, d, o) ==
    LET e == explain_prediction(d, o.predicted_price, o.model_type, GetProductType(o))
    IN  IF e.kind = "raise"
        THEN [Response("smart_retail", d, RouteErrorStatus(e.exc),
                       RouteErrorDetail(e.exc, "explanation"), o)
                 EXCEPT !.explain = TRUE]
        ELSE [r EXCEPT !.explain = TRUE,
                       !.explanation = IF r.status = 200 THEN e.explanation ELSE <<>>]

\* the response r of the route for the returned prediction o, after the
\* explanation step of a request with explain=true: a failure of
\* explain_prediction is caught and leaves explanation = None
WithExplanation(r, d, o) ==
    LET e == explain_prediction(d, o.predicted_price, o.model_type, GetProductType(o))
    IN  [r EXCEPT !.explain = TRUE,
                  !.explanation = IF r.status = 200 /\ e.kind = "return"
                                  THEN e.explanation ELSE <<>>]

sr_predict_price_explain(d) ==
    /\ app = "smart_retail"
    /\ Started
    /\ Idle
    /\ IF ~sr_RequestValid(d)
       THEN resp' = [Response("smart_retail", d, 422, "validation error",
                              Raised("none", "", "absent", "not_called", {}))
                        EXCEPT !.errors = PriceRequestErrors(d), !.explain = TRUE]
       ELSE \E o \in predict_price(fast_models["price_predict"],
                                   original_model["price_predict"], d) :
               resp' = IF o.kind = "return"
                       THEN WithExplanation(sr_RouteResponse(d, o), d, o)
                       ELSE [sr_RouteResponse(d, o) EXCEPT !.explain = TRUE]
    /\ UNCHANGED <<env, fast_models, original_model, pc, health, call, prev, slots>>

\* the payload of test_price_prediction_with_explanation, without its fabric
ExplainShirt ==
    [product_name |-> <<"M", "e", "n", " ", "S", "o", "l", "i", "d", " ", "C", "a", "s", "u", "a", "l", " ", "S", "h", "i", "r", "t">>,
     brand |-> <<"r", "o", "a", "d", "s", "t", "e", "r">>,
     gender |-> <<"m", "e", "n">>,
     category |-> <<"s", "h", "i", "r", "t">>,
     rating_count |-> 500,
     discount_percent |-> 4000]

Cotton == <<"c", "o", "t", "t", "o", "n">>

\* bodies with the fabric unset and set, the discount 100 among them
ExplainBodies ==
    {d @@ [fabric |-> f] :
        d \in {ExplainShirt, GoldRing, AutoWatch, SpringDress, NegativeRating},
        f \in {<<>>, <<Cotton>>}}

\* smart_retail started with a full or a partial multi-model artifact, or with
\* a single-model artifact only
ExplainInit ==
    /\ Init
    /\ app = "smart_retail"
    /\ fit_ok
    /\ artifacts.fallback = "missing"
    /\ \/ /\ artifacts.fast = "valid"
          /\ artifacts.original = "missing"
          /\ artifact_models \in {ProductTypes, {"jewelry"}}
       \/ /\ artifacts.fast = "missing"
          /\ artifacts.original = "valid"

ExplainNext ==
    \/ \E h \in Holders : LoadFast(h)
    \/ \E h \in Holders : LoadOriginal(h)
    \/ \E h \in Holders : LoadFallbackFile(h)
    \/ \E h \in Holders : CreateFallbackModel(h)
    \/ \E d \in ExplainBodies : sr_predict_price(d)
    \/ \E d \in ExplainBodies : sr_predict_price_explain(d)
    \/ ResponseSent

ExplainSpec == ExplainInit /\ [][ExplainNext]_vars

(***************************************************************************)
(* Properties                                                              *)
(***************************************************************************)
\* a price request has been answered by the handler itself
Answered == resp # NoResp /\ resp.status # 422

\* the holder whose models the price endpoint of the running app reads
PriceHolder == IF app = "server" THEN "server" ELSE "price_predict"

\* the holder whose models the health endpoint of the running app reads
HealthHolder == IF app = "server" THEN "server" ELSE "health"

\* C1: with the multi-model tier active, every successful price response for
\* a descriptor classified as type T has predicted_price inside T's band
\* (jewelry [100, 200000], watches [500, 100000], luxury_apparel
\* [1000, 50000], apparel [50, 10000]) whatever the pipeline returned, the
\* rounding to 2 decimals included.  Prices are in thousandths.
C1_PriceWithinBand ==
    (resp.status = 200 /\ resp.model_type = "fast_multi_model") =>
        /\ resp.product_type = classify_product_type(resp.req)
        /\ resp.product_type = "jewelry" =>
              (100000 <= resp.predicted_price /\ resp.predicted_price <= 200000000)
        /\ resp.product_type = "watches" =>
              (500000 <= resp.predicted_price /\ resp.predicted_price <= 100000000)
        /\ resp.product_type = "luxury_apparel" =>
              (1000000 <= resp.predicted_price /\ resp.predicted_price <= 50000000)
        /\ resp.product_type = "apparel" =>
              (50000 <= resp.predicted_price /\ resp.predicted_price <= 10000000)

\* a jewelry response whose pipeline output lay above the band
C1_Witness ==
    /\ resp.status = 200
    /\ resp.model_type = "fast_multi_model"
    /\ resp.product_type = "jewelry"
    /\ expm1(resp.pred_log) > 200000000
    /\ resp.predicted_price = 200000000

\* the tier a holder serves predictions from
ActiveTier(h) ==
    IF Truthy(fast_models[h]) THEN "multi"
    ELSE IF original_model[h] \in {"improved", "basic"} THEN "single"
    ELSE IF original_model[h] \in {"fallback_file", "fallback_basic", "synthetic"}
         THEN "bootstrap"
    ELSE "none"

\* the highest-priority tier whose load can succeed in this environment
BestLoadableTier ==
    IF artifacts.fast = "valid" THEN "multi"
    ELSE IF artifacts.original = "valid" THEN "single"
    ELSE IF artifacts.fallback = "valid" \/ fit_ok THEN "bootstrap"
    ELSE "none"

\* C2: after startup loading finishes, for every combination of missing,
\* corrupt and valid artifacts, the active tier is the highest-priority tier
\* whose load succeeded (a failed load is survived and the next tier tried),
\* and no lower-tier model is held alongside a usable multi-model registry.
C2_HighestLoadableTierActive ==
    \A h \in HoldersOf(app) :
        pc[h] = "ready" =>
            /\ ActiveTier(h) = BestLoadableTier
            /\ Truthy(fast_models[h]) => original_model[h] = "None"
            /\ original_model[h] = "synthetic" => artifacts.fallback # "valid"

\* the multi-model artifact was corrupt and the single-model tier took over
C2_Witness ==
    /\ artifacts.fast = "corrupt"
    /\ artifacts.original = "valid"
    /\ artifacts.fallback = "valid"
    /\ pc[PriceHolder] = "ready"
    /\ ActiveTier(PriceHolder) = "single"

\* C3: if the multi-model artifact is absent or fails to load and the
\* single-model artifact loads, a valid price request succeeds via the
\* single-model tier with model_type = original_single_model.
C3_SingleModelFallbackServes ==
    (/\ artifacts.fast \in {"missing", "corrupt"}
     /\ artifacts.original = "valid"
     /\ Answered
     /\ sr_RequestValid(resp.req))
    => (resp.status = 200 /\ resp.model_type = "original_single_model")

\* every artifact load fails and so does the synthetic training
NothingLoadable ==
    /\ artifacts.fast \in {"missing", "corrupt"}
    /\ artifacts.original \in {"missing", "corrupt"}
    /\ artifacts.fallback \in {"missing", "corrupt"}
    /\ ~fit_ok

\* C4: if no tier could be loaded, startup still completes with no model
\* held, every price request the endpoint admits is answered 503 (service
\* unavailable), and the health status reports no pricing model loaded.
C4_NoTierMeansUnavailable ==
    NothingLoadable =>
        /\ \A h \in HoldersOf(app) :
              pc[h] = "ready" => (fast_models[h] = None /\ original_model[h] = "None")
        /\ Answered =>
              (resp.status = 503 /\ resp.pipeline = "not_called"
               /\ resp.detail \in {"No price models are loaded.",
                                   "No price prediction models are loaded"})
        /\ health # NoHealth =>
              (~health.fast_models_loaded /\ ~health.original_model_loaded)

\* startup completed without any model and a price request got its 503
C4_Witness ==
    /\ NothingLoadable
    /\ Started
    /\ Answered
    /\ resp.status = 503

\* startup completed without any model and the health endpoint said so
C4_HealthWitness ==
    /\ NothingLoadable
    /\ Started
    /\ health # NoHealth
    /\ ~health.fast_models_loaded
    /\ ~health.original_model_loaded

C6_UniformRecordCoversTrained ==
    (/\ Answered
     /\ sr_RequestValid(resp.req)
     /\ ~Truthy(fast_models[PriceHolder])
     /\ original_model[PriceHolder] # "None")
    => (/\ OriginalModelFeatures(original_model[PriceHolder]) \subseteq resp.columns
        /\ resp.status = 200)

\* C7: with the multi-model tier active, a request whose classified type has
\* no entry in the registry is answered with the not-found condition (404),
\* distinct from service-unavailable (503) and prediction-failed (500).
C7_UnregisteredTypeIsNotFound ==
    (/\ Answered
     /\ Truthy(fast_models[PriceHolder])
     /\ resp.classified \notin fast_models[PriceHolder].models)
    => (resp.status = 404 /\ resp.status \notin {500, 503})

\* C8: any failure raised by a pipeline's predict, whatever its exception
\* type and whichever tier is active, is answered 500 'Prediction failed:
\* ...', never as service-unavailable.
C8_PipelineFailureIsPredictionFailed ==
    (Answered /\ resp.pipeline = "raised") =>
        (resp.status = 500 /\ resp.detail = "Prediction failed: pipeline")

\* the elements of a keyword list
Keywords(list) == {list[i] : i \in 1..Len(list)}

\* C9: classify returns jewelry iff some jewelry keyword is a substring of
\* the lowercased category or product_name; otherwise watches iff some watch
\* keyword is a substring of either; otherwise luxury_apparel iff some luxury
\* keyword is a substring of the product_name alone; otherwise apparel.
C9_ClassifyPriority ==
    call.fn # "none" =>
        LET c == Lower(Get(call.arg, "category"))
            n == Lower(Get(call.arg, "product_name"))
            j == \E k \in Keywords(JEWELRY_KEYWORDS) : Contains(k, c) \/ Contains(k, n)
            w == \E k \in Keywords(WATCH_KEYWORDS) : Contains(k, c) \/ Contains(k, n)
            l == \E k \in Keywords(LUXURY_KEYWORDS) : Contains(k, n)
        IN  /\ call.result = "jewelry" <=> j
            /\ call.result = "watches" <=> (~j /\ w)
            /\ call.result = "luxury_apparel" <=> (~j /\ ~w /\ l)
            /\ call.result = "apparel" <=> (~j /\ ~w /\ ~l)

\* a category containing 'necklace' with a product_name containing 'silk'
\* was classified as jewelry
C9_Witness ==
    /\ call.fn # "none"
    /\ Contains(<<"n","e","c","k","l","a","c","e">>, Lower(Get(call.arg, "category")))
    /\ Contains(<<"s","i","l","k">>, Lower(Get(call.arg, "product_name")))
    /\ call.result = "jewelry"

\* C10: classification is total and depends on the descriptor alone: every
\* descriptor, empty or missing category and product_name included, gets
\* exactly one of the four types, the same from either classifier.
C10_ClassifyTotal ==
    call.fn # "none" =>
        /\ call.result \in ProductTypes
        /\ call.result = classify_product_type(call.arg)
        /\ call.result = srv_classify_product_type(call.arg)

\* a dict with neither category nor product_name was classified
C10_Witness ==
    /\ call.fn # "none"
    /\ call.arg = NoKeys
    /\ call.result = "apparel"

\* C11: every successful price response names the tier that produced its
\* price: fast_multi_model for the multi-model tier, original_single_model
\* for the single general model, fallback_model for the fallback (bootstrap)
\* model.
C11_ModelTypeNamesServingTier ==
    resp.status = 200 =>
        /\ resp.model_type \in {"fast_multi_model", "original_single_model",
                                "fallback_model"}
        /\ ActiveTier(PriceHolder) = "multi" => resp.model_type = "fast_multi_model"
        /\ ActiveTier(PriceHolder) = "single" =>
              resp.model_type = "original_single_model"
        /\ ActiveTier(PriceHolder) = "bootstrap" => resp.model_type = "fallback_model"

\* the values with which a response or the health status names a tier
TierNames == {"fast_multi_model", "original_single_model", "fallback_model"}

\* C12: after loading, the health status agrees with what serves price
\* predictions: model_type_in_use is the model_type a successful prediction
\* returns, fast_models_loaded holds exactly when the multi-model tier
\* serves, original_model_loaded exactly when the single-model or bootstrap
\* tier serves, and with no pricing model loaded no tier is named.
C12_HealthAgreesWithServing ==
    (Started /\ health # NoHealth) =>
        LET tier == ActiveTier(PriceHolder)
        IN  /\ health.fast_models_loaded <=> tier = "multi"
            /\ health.original_model_loaded <=> tier \in {"single", "bootstrap"}
            /\ tier = "multi" => health.model_type_in_use = "fast_multi_model"
            /\ tier \in {"single", "bootstrap"} =>
                  health.model_type_in_use = "original_single_model"
            /\ tier = "none" => health.model_type_in_use \notin TierNames

ShownConfidence ==
    IF resp.endpoint = "smart_retail" THEN resp.confidence ELSE ui_confidence(resp)

\* C14: the confidence of a successful price response is High exactly when
\* the multi-model tier classified the request as jewelry or watches, and
\* Medium otherwise, every response of the single-model tier included.
C14_ConfidenceHighIffJewelryOrWatches ==
    resp.status = 200 =>
        /\ ShownConfidence \in {"High", "Medium"}
        /\ ShownConfidence = "High" <=>
              (/\ resp.model_type = "fast_multi_model"
               /\ classify_product_type(resp.req) \in {"jewelry", "watches"})
        /\ resp.model_type = "original_single_model" => ShownConfidence = "Medium"

\* a watch priced by the multi-model tier of smart_retail got High
C14_Witness ==
    /\ resp.status = 200
    /\ resp.endpoint = "smart_retail"
    /\ resp.model_type = "fast_multi_model"
    /\ resp.product_type = "watches"
    /\ resp.confidence = "High"

\* a gold ring priced by the single-model tier of smart_retail got Medium
C14_SingleTierWitness ==
    /\ resp.status = 200
    /\ resp.endpoint = "smart_retail"
    /\ resp.model_type = "original_single_model"
    /\ classify_product_type(resp.req) = "jewelry"
    /\ resp.confidence = "Medium"

\* C15: every successful price response, in every tier and on both price
\* endpoints, carries predicted_price >= 0, whatever log-scale value the
\* pipeline returned.
C15_PriceNonNegative ==
    resp.status = 200 => resp.predicted_price >= 0

\* C16 as stated: the price of every successful response, whichever tier
\* served it, lies inside a [min, max] band of the constraint policy.
C16_EveryTierClamped ==
    resp.status = 200 =>
        \E t \in ProductTypes :
            /\ PRICE_CONSTRAINTS[t][1] <= resp.predicted_price
            /\ resp.predicted_price <= PRICE_CONSTRAINTS[t][2]

\* C16 amended: the constraint policy is applied by the multi-model tier
\* only; the price of a response served by the single-model or bootstrap
\* tier is round(expm1(pred_log), 2) as the pipeline gave it, unclamped.
C16_ClampOnlyInMultiTier ==
    resp.status = 200 =>
        /\ resp.model_type = "fast_multi_model" =>
              resp.predicted_price \in
                  Round2(ApplyConstraints(expm1(resp.pred_log), resp.product_type))
        /\ resp.model_type = "original_single_model" =>
              resp.predicted_price \in Round2(expm1(resp.pred_log))

\* the single-model tier answered with a price below every band
C16_Witness ==
    /\ resp.status = 200
    /\ resp.model_type = "original_single_model"
    /\ resp.predicted_price < PRICE_CONSTRAINTS["apparel"][1]
    /\ \A t \in ProductTypes : resp.predicted_price < PRICE_CONSTRAINTS[t][1]

\* a required text field of the body is empty
EmptyRequiredField(d) ==
    \E f \in {"product_name", "brand", "gender", "category"} : Len(d[f]) = 0

\* discount_percent lies outside [0, 100] (hundredths of a percent)
DiscountOutOfRange(d) == d.discount_percent < 0 \/ d.discount_percent > 10000

\* the handler went beyond validation: it classified the request or handed
\* its record to a pipeline
Processed == resp.classified # "absent" \/ resp.pipeline # "not_called"

\* C17: on both price endpoints a request with an empty required field, a
\* negative rating_count or a discount_percent outside [0, 100] never
\* reaches the classifier or a pipeline with those values.
C17_OutOfBoundsNeverProcessed ==
    (/\ resp # NoResp
     /\ \/ EmptyRequiredField(resp.req)
        \/ resp.req.rating_count < 0
        \/ DiscountOutOfRange(resp.req))
    => ~Processed

\* C18: a price request with discount_percent 0 or 100 gets no validation
\* error for that field, and one with discount_percent above 100 or below 0
\* (100.01, -0.01) is answered with a validation error before the classifier
\* or a pipeline runs.
C18_DiscountBoundsValidated ==
    resp # NoResp =>
        /\ resp.req.discount_percent \in {0, 10000} =>
              "discount_percent" \notin resp.errors
        /\ DiscountOutOfRange(resp.req) =>
              (/\ resp.status = 422
               /\ "discount_percent" \in resp.errors
               /\ ~Processed)

\* the messages of a returned error list
Messages(errors) == {errors[i] : i \in 1..Len(errors)}

\* a text field of a dict is missing or empty
Blank(d, f) == f \notin DOMAIN d \/ d[f] = <<>>

\* C19: a malformed body of POST /predict/price is answered 422 before the
\* classifier or a pipeline runs, and the rejection names every field that
\* breaks a rule of PriceRequest, not only the first; validate_price_request
\* returns one entry per rule its argument breaks, and so the empty list
\* only when no rule is broken.
C19_RejectionListsEveryViolation ==
    /\ resp # NoResp =>
          LET d == resp.req
          IN  /\ "product_name" \in resp.errors <=>
                    (Len(d.product_name) = 0 \/ Len(d.product_name) > 500)
              /\ "brand" \in resp.errors <=> (Len(d.brand) = 0 \/ Len(d.brand) > 100)
              /\ "category" \in resp.errors <=>
                    (Len(d.category) = 0 \/ Len(d.category) > 100)
              /\ "gender" \in resp.errors <=> Lower(d.gender) \notin VALID_GENDERS
              /\ "rating_count" \in resp.errors <=> d.rating_count < 0
              /\ "discount_percent" \in resp.errors <=> DiscountOutOfRange(d)
              /\ resp.status = 422 <=> resp.errors # {}
              /\ resp.status = 422 => ~Processed
    /\ call.fn = "InputValidator.validate_price_request" =>
          LET d == call.arg
              m == Messages(call.result)
          IN  /\ \A f \in {"product_name", "brand", "gender", "category"} :
                    ("Missing required field: " \o f) \in m <=> Blank(d, f)
              /\ "Invalid gender" \in m <=>
                    (~Blank(d, "gender") /\ d.gender \notin VALID_GENDERS)
              /\ "Invalid category" \in m <=>
                    (/\ ~Blank(d, "category")
                     /\ \A c \in VALID_CATEGORIES : Lower(d.category) # c)
              /\ "rating_count must be non-negative" \in m <=>
                    ("rating_count" \in DOMAIN d /\ d.rating_count < 0)
              /\ "discount_percent must be between 0 and 100" \in m <=>
                    ("discount_percent" \in DOMAIN d /\ DiscountOutOfRange(d))
              /\ "product_name must be 200 characters or less" \in m <=>
                    (~Blank(d, "product_name") /\ Len(d.product_name) > 200)
              /\ "brand must be 50 characters or less" \in m <=>
                    (~Blank(d, "brand") /\ Len(d.brand) > 50)
              /\ Cardinality(m) = Len(call.result)

\* a body with an empty product_name and a discount of 100.01 was rejected
\* by the route with both fields named
C19_Witness ==
    /\ resp.status = 422
    /\ Len(resp.req.product_name) = 0
    /\ resp.req.discount_percent = 10001
    /\ {"product_name", "discount_percent"} \subseteq resp.errors
    /\ ~Processed

\* validate_price_request returned two entries for an empty brand together
\* with an out-of-range discount
C19_ValidatorWitness ==
    /\ call.fn = "InputValidator.validate_price_request"
    /\ call.result = <<"Missing required field: brand",
                       "discount_percent must be between 0 and 100">>

AloneResponses(d) ==
    LET fm == fast_models["server"]
        om == original_model["server"]
    IN  IF srv_NoModelsLoaded(fm, om)
        THEN {Response("server", d, 503, "No price models are loaded.",
                       Raised("HTTPException", "", "absent", "not_called", {}))}
        ELSE IF Truthy(fm) THEN srv_FastResponses(fm, d)
        ELSE srv_OriginalResponses(om, d)

\* C21: once startup is over no price or health request changes the loaded
\* registry (fast_models with its brand-prestige table, original_model) or
\* the body of a request in flight, and however the worker threads of
\* server/app.py interleave, each request gets a response its handler could
\* have given running alone.
C21_ConcurrentRequestsAsAlone ==
    /\ [][Started => (fast_models' = fast_models /\ original_model' = original_model)]_vars
    /\ [][\A t \in WorkerThreads :
             (slots[t].pc # "idle" /\ slots'[t].pc # "idle") =>
                 slots'[t].req = slots[t].req]_vars
    /\ [](\A t \in WorkerThreads :
             slots[t].pc = "done" => slots[t].resp \in AloneResponses(slots[t].req))

\* two threads finished requests of different product types side by side
C21_Witness ==
    /\ slots["t1"].pc = "done"
    /\ slots["t2"].pc = "done"
    /\ slots["t1"].resp.status = 200
    /\ slots["t2"].resp.status = 200
    /\ slots["t1"].resp.product_type = "jewelry"
    /\ slots["t2"].resp.product_type = "apparel"

\* the digits s[a..b] are a whole run: no digit before a, none after b
DigitRun(s, a, b) ==
    /\ a <= b
    /\ \A i \in a..b : s[i] \in Digits
    /\ a > 1 => s[a - 1] \notin Digits
    /\ b < Len(s) => s[b + 1] \notin Digits

\* 'kt' in either case follows position b, after whitespace only
FollowedByKt(s, b) ==
    \E k \in (b + 1)..(Len(s) - 1) :
        /\ \A i \in (b + 1)..(k - 1) : s[i] \in Whitespace
        /\ LowerChar(s[k]) = "k"
        /\ LowerChar(s[k + 1]) = "t"

\* the runs of digits of s that 'kt' follows, as pairs of first and last index
KaratRuns(s) ==
    {r \in (1..Len(s)) \X (1..Len(s)) :
        DigitRun(s, r[1], r[2]) /\ FollowedByKt(s, r[2])}

\* C22: karat is the integer formed by the first run of digits in
\* product_name that is directly followed (whitespace allowed, either case)
\* by 'kt', and 0 when there is none; 'Men 18kt Gold Ring' of category
\* 'ring' is jewelry with karat 18.
C22_KaratFirstDigitsBeforeKt ==
    call.fn # "none" =>
        LET s    == call.arg.product_name
            runs == KaratRuns(s)
        IN  /\ runs = {} => call.result.karat = 0
            /\ runs # {} =>
                  \E r \in runs :
                      /\ \A q \in runs : r[1] <= q[1]
                      /\ call.result.karat = DigitsToInt(s, r[1], r[2])
            /\ call.arg = KaratRing =>
                  (call.result.karat = 18 /\ call.result.product_type = "jewelry")

\* the scenario's ring got karat 18 and the type jewelry
C22_Witness ==
    /\ call.fn # "none"
    /\ call.arg = KaratRing
    /\ call.result.karat = 18
    /\ call.result.product_type = "jewelry"

\* a name with an earlier number not followed by 'kt' and digits separated
\* from 'KT' by spaces
C22_SkippedRunWitness ==
    /\ call.fn # "none"
    /\ call.arg.product_name = <<"1", "2", " ", "1", "8", " ", " ", "K", "T">>
    /\ call.result.karat = 18

\* C23: each descriptor of the system test is routed to the product type its
\* test case names: the gold ring to jewelry, the automatic watch to watches,
\* the designer silk saree to luxury_apparel and the cotton T-shirt to
\* apparel, whose response price lies in [50, 10000].
C23_SystemTestRouting ==
    (resp # NoResp /\ resp.classified # "absent") =>
        /\ resp.req = GoldRing  => resp.classified = "jewelry"
        /\ resp.req = AutoWatch => resp.classified = "watches"
        /\ resp.req = SilkSaree => resp.classified = "luxury_apparel"
        /\ resp.req = CottonTee => resp.classified = "apparel"
        /\ (resp.req \in {GoldRing, AutoWatch, SilkSaree, CottonTee}
            /\ resp.status = 200) =>
              /\ resp.product_type = resp.classified
              /\ resp.model_type = "fast_multi_model"
        /\ (resp.req = CottonTee /\ resp.status = 200) =>
              /\ 50000 <= resp.predicted_price
              /\ resp.predicted_price <= 10000000

\* the T-shirt answered by the apparel model, whose output lay above the band
C23_Witness ==
    /\ resp.req = CottonTee
    /\ resp.status = 200
    /\ resp.classified = "apparel"
    /\ resp.product_type = "apparel"
    /\ expm1(resp.pred_log) > 10000000
    /\ resp.predicted_price = 10000000

\* the ring, the watch and the saree answered by their own models
C23_JewelryWitness ==
    resp.req = GoldRing /\ resp.status = 200 /\ resp.product_type = "jewelry"

C23_WatchesWitness ==
    resp.req = AutoWatch /\ resp.status = 200 /\ resp.product_type = "watches"

C23_LuxuryWitness ==
    resp.req = SilkSaree /\ resp.status = 200 /\ resp.product_type = "luxury_apparel"

\* what a health handler reading the registry of holder h reports
HealthOf(h) ==
    [fast_models_loaded |-> fast_models[h] # None,
     original_model_loaded |-> original_model[h] # "None",
     model_type_in_use |-> IF Truthy(fast_models[h]) THEN "fast_multi_model"
                           ELSE "original_single_model"]

\* C24: model loading runs once per process and the health handler reads the
\* registry the price handler predicts with: even if the artifacts on disk
\* change while the process starts, what a health response reports is the
\* state of the registry that serves the price requests.
C24_HealthReadsServingRegistry ==
    health # NoHealth =>
        /\ health.fast_models_loaded = HealthOf(PriceHolder).fast_models_loaded
        /\ health.original_model_loaded = HealthOf(PriceHolder).original_model_loaded
        /\ health.model_type_in_use = HealthOf(PriceHolder).model_type_in_use

\* C25: no request handler observes a registry whose loading has started but
\* has neither completed nor failed: a price or health request is served only
\* after every load step has run, and what it sees is the fully resolved
\* tier, never a moment where a higher tier has failed and the fallback is
\* not yet installed.
C25_NoHalfLoadedRegistryObserved ==
    /\ (resp # NoResp \/ health # NoHealth) =>
          \A h \in HoldersOf(app) : pc[h] = "ready"
    /\ Answered =>
          /\ resp.detail \in {"No price models are loaded.",
                              "No price prediction models are loaded"} =>
                BestLoadableTier = "none"
          /\ resp.model_type = "fast_multi_model" => BestLoadableTier = "multi"
          /\ resp.model_type = "original_single_model" =>
                BestLoadableTier \in {"single", "bootstrap"}
    /\ health # NoHealth =>
          /\ health.original_model_loaded = (BestLoadableTier \in {"single", "bootstrap"})
          /\ (health.model_type_in_use = "fast_multi_model") = (BestLoadableTier = "multi")

\* the two higher tiers failed to load and the request was answered by the
\* fallback installed after them
C25_Witness ==
    /\ artifacts.fast = "corrupt"
    /\ artifacts.original = "corrupt"
    /\ BestLoadableTier = "bootstrap"
    /\ resp.status = 200
    /\ resp.model_type = "original_single_model"

\* the health endpoint answered after the fallback was installed
C25_HealthWitness ==
    /\ artifacts.fast = "corrupt"
    /\ artifacts.original = "missing"
    /\ health # NoHealth
    /\ health.original_model_loaded

\* the pipelines predict_price of holder h can dispatch to
Dispatchable(h) ==
    IF Truthy(fast_models[h]) THEN fast_models[h].models
    ELSE IF original_model[h] # "None" THEN {original_model[h]}
    ELSE {}

\* C26: every pipeline that predict_price can dispatch to (each multi-model
\* entry, the single-model artifact, the fallback artifact and the synthetic
\* model trained at startup) was trained on log1p(price), so that expm1 of
\* its output is a price in currency units.
C26_EveryPipelineLogScale ==
    \A h \in HoldersOf(app) :
        pc[h] = "ready" =>
            \A m \in Dispatchable(h) : TrainingTarget(m) = "log1p"

\* the calls that derive the features of a request for the multi-model tier
EnhancedFeatureCalls ==
    {"ModelManager._extract_enhanced_features", "server.extract_enhanced_features"}

\* C27: for every product and brand-price table, each derived categorical
\* feature takes at inference the value the training code derives for the
\* same product: brand_prestige equals the tier get_brand_prestige of the
\* training assigns to the brand, and price_range equals the training-time
\* price_range.
C27_InferenceFeaturesAsTrained ==
    call.fn \in EnhancedFeatureCalls =>
        /\ call.result.brand_prestige =
              get_brand_prestige(call.arg.product.brand, call.arg.scores)
        /\ call.result.price_range =
              train_price_range(call.arg.product.original_price)

\* C27, the brand_prestige half alone
C27_BrandPrestigeAsTrained ==
    call.fn \in EnhancedFeatureCalls =>
        call.result.brand_prestige =
            get_brand_prestige(call.arg.product.brand, call.arg.scores)

\* C27, the price_range half alone
C27_PriceRangeAsTrained ==
    call.fn \in EnhancedFeatureCalls =>
        call.result.price_range = train_price_range(call.arg.product.original_price)

\* a product of the training data for which both features agree
C27_AgreeingWitness ==
    /\ call.fn \in EnhancedFeatureCalls
    /\ call.arg.product.brand \in DOMAIN call.arg.scores
    /\ call.result.brand_prestige =
          get_brand_prestige(call.arg.product.brand, call.arg.scores)
    /\ call.result.price_range = train_price_range(call.arg.product.original_price)

\* the brand-prestige table entry for the lowercased brand, 0 when absent
TableEntry(brand, scores) ==
    IF \E b \in DOMAIN scores : b = Lower(brand)
    THEN scores[Lower(brand)] ELSE 0

\* C28: brand_prestige is budget when p < 500, mid_range when
\* 500 <= p < 2000, premium when 2000 <= p < 5000 and ultra_premium when
\* p >= 5000, where p = brand_avg_price is the table entry for the lowercased
\* brand and 0 when the brand is absent from the table: an unknown brand is
\* budget, and brands differing only in letter case get the same tier.
C28_BrandPrestigeThresholds ==
    call.fn # "none" =>
        LET p == TableEntry(call.arg.product.brand, call.arg.scores)
        IN  /\ call.result.brand_avg_price = p
            /\ (call.result.brand_prestige = "budget") = (p < 500)
            /\ (call.result.brand_prestige = "mid_range") = (500 <= p /\ p < 2000)
            /\ (call.result.brand_prestige = "premium") = (2000 <= p /\ p < 5000)
            /\ (call.result.brand_prestige = "ultra_premium") = (p >= 5000)
            /\ Lower(call.arg.product.brand) \notin DOMAIN call.arg.scores =>
                  call.result.brand_prestige = "budget"
            /\ \A other \in BrandProducts :
                  Lower(other.brand) = Lower(call.arg.product.brand) =>
                      brand_prestige(other, call.arg.scores) = call.result.brand_prestige

\* a brand written with a capital letter gets the tier of its lowercase entry
C28_Witness ==
    /\ call.fn = "ModelManager._extract_enhanced_features"
    /\ call.arg.product.brand = <<"T", "a", "n", "i", "s", "h", "q">>
    /\ TableEntry(call.arg.product.brand, call.arg.scores) = 9000
    /\ call.result.brand_prestige = "ultra_premium"

\* a table entry exactly on the threshold 500
C28_ThresholdWitness ==
    /\ call.fn = "FeatureExtractor.extract_brand_features"
    /\ call.result.brand_avg_price = 500
    /\ call.result.brand_prestige = "mid_range"

\* a brand stored in the table with a capital letter is not found
C28_UnknownWitness ==
    /\ call.fn # "none"
    /\ call.arg.product.brand = <<"Z", "a", "r", "a">>
    /\ call.arg.product.brand \in DOMAIN call.arg.scores
    /\ call.result.brand_avg_price = 0
    /\ call.result.brand_prestige = "budget"

\* C29: in server/app.py, for every outcome of startup loading, a request
\* that passes the 'no price models are loaded' guard is dispatched to a
\* model that is present (predict is never called on a missing model), and
\* the guard, the dispatch test and the health booleans agree on whether
\* the multi-model tier is loaded.
C29_GuardDispatchHealthAgree ==
    /\ (/\ resp.endpoint = "server"
        /\ Answered
        /\ resp.detail # "No price models are loaded.") =>
          /\ Truthy(fast_models["server"]) \/ original_model["server"] # "None"
          /\ ~(resp.exc = "AttributeError" /\ resp.pipeline = "not_called")
    /\ health.endpoint = "server" =>
          health.fast_models_loaded = Truthy(fast_models["server"])

\* C29, the dispatch half alone
C29_DispatchFindsModel ==
    (/\ resp.endpoint = "server"
     /\ Answered
     /\ resp.detail # "No price models are loaded.") =>
        (Truthy(fast_models["server"]) \/ original_model["server"] # "None")

\* C29, the health half alone
C29_HealthAgreesWithDispatch ==
    health.endpoint = "server" =>
        health.fast_models_loaded = Truthy(fast_models["server"])

\* the responses the route gives the body d without an explanation requested
PlainResponses(d) ==
    IF ~sr_RequestValid(d)
    THEN {[Response("smart_retail", d, 422, "validation error",
                    Raised("none", "", "absent", "not_called", {}))
              EXCEPT !.errors = PriceRequestErrors(d)]}
    ELSE {sr_RouteResponse(d, o) :
            o \in predict_price(fast_models["price_predict"],
                                original_model["price_predict"], d)}

\* building the explanation of the body fails
ExplanationFails(d) ==
    Fabric(d) = <<>> \/ d.discount_percent = 10000

\* C30: requesting an explanation never changes the predicted_price,
\* product_type, model_type or confidence of the response (nor its status)
\* compared with explain=false for the same outcome of the pipeline, and a
\* failure while building the explanation yields a successful response
\* with explanation = null instead of an error.
C30_ExplainLeavesResponseAlone ==
    (resp # NoResp /\ resp.explain) =>
        /\ [resp EXCEPT !.explain = FALSE, !.explanation = <<>>]
              \in PlainResponses(resp.req)
        /\ (/\ resp.pipeline = "returned"
            /\ expm1(resp.pred_log) \notin {Inf, NaN}
            /\ expm1(resp.pred_log) >= 0) =>
              resp.status = 200
        /\ resp.status = 200 =>
              /\ ExplanationFails(resp.req) => resp.explanation = <<>>
              /\ ~ExplanationFails(resp.req) =>
                    /\ resp.explanation # <<>>
                    /\ resp.explanation[1].predicted_price = resp.predicted_price
                    /\ resp.explanation[1].model_type = resp.model_type
                    /\ resp.explanation[1].product_type = resp.product_type

\* the fabric was unset, explain_prediction raised, and the price came back
\* with a null explanation
C30_Witness ==
    /\ resp.explain
    /\ resp.status = 200
    /\ Fabric(resp.req) = <<>>
    /\ resp.explanation = <<>>
    /\ resp.predicted_price > 0

\* discount_percent = 100 made the price breakdown divide by zero
C30_DivisionWitness ==
    /\ resp.explain
    /\ resp.status = 200
    /\ Fabric(resp.req) # <<>>
    /\ resp.req.discount_percent = 10000
    /\ resp.explanation = <<>>

\* an explanation was built
C30_ExplainedWitness ==
    /\ resp.explain
    /\ resp.status = 200
    /\ resp.explanation # <<>>
====
